---- MODULE Spec2Model ----
(***************************************************************************)
(* Model of the transport core of shtrihm-fr (src/shtrihmfr/kkt.py,        *)
(* BaseKKT): the request/response exchange ask() = send() + read(), with   *)
(* the ENQ/ACK/NAK handshake (check_state, check_ACK), the STX wait        *)
(* (check_STX) and the length/checksum verification of the response.       *)
(*                                                                         *)
(* The code is Python 2 code (str is a byte string, chr(n) is one byte);   *)
(* a byte string is modelled as a sequence of integers 0..255, the empty   *)
(* string (a read that timed out) as << >>.  The device is the             *)
(* environment: every channel read returns what the device chooses, drawn  *)
(* from small sets.  One action is one step of ask() between two channel   *)
(* reads; an exception ends the call and is recorded in out.               *)
(*                                                                         *)
(* Line 212 of kkt.py reads "timeout *= 1.5z"; the stray "z" is taken as   *)
(* a typing slip for "timeout *= 1.5" (the comment at lines 203-205 gives  *)
(* the total 12.8746337890625 s that only the factor 1.5 produces).        *)
(***************************************************************************)
EXTENDS Integers, Sequences, FiniteSets, TLC

(* ------------------------------ bounds -------------------------------- *)

\* number of ask() calls issued one after another on the instance
MaxCalls == 2
\* largest length byte the device sends in a response
MaxRespLen == 3

(* --------------------------- program constants ------------------------ *)

ENQ == 5
STX == 2
ACK == 6
NAK == 21
MAX_ATTEMPT == 12

\* Rational numbers [n, d] (d > 0) stand for the floats of the code.
\* An intermediate value is bound by "x \in {value}": it is computed once,
\* where an operator argument is computed again at each of its uses.
RECURSIVE Gcd(_, _)
Gcd(a, b) ==
  IF b = 0 THEN a ELSE CHOOSE g \in {Gcd(b, r) : r \in {a % b}} : TRUE

Norm(r) ==
  CHOOSE q \in {[n |-> r.n \div g, d |-> r.d \div g] : g \in {Gcd(r.n, r.d)}} : TRUE

RAdd(a, b) ==
  LET l == (a.d * b.d) \div Gcd(a.d, b.d)
  IN  Norm([n |-> a.n * (l \div a.d) + b.n * (l \div b.d), d |-> l])

RMul(a, b) == Norm([n |-> a.n * b.n, d |-> a.d * b.d])

RZero == [n |-> 0, d |-> 1]

\* conf.py: MIN_TIMEOUT = 0.05
MIN_TIMEOUT == [n |-> 1, d |-> 20]

\* BaseKKT.password = password_prapare(DEFAULT_PASSWORD): the four bytes
\* of (0x1, 0x0, 0x0, 0x0)
password == <<1, 0, 0, 0>>

(* ------------------------------ helpers ------------------------------- *)

\* Python 2 chr(): the one-byte string of a code
chr(x) == <<x>>

\* Python ord() of a one-byte string
ord(s) == s[1]

\* a slip in utils.py line 141: | written for ^
RECURSIVE BitXor_or(_, _)
BitXor_or(a, b) ==
  IF a = 0 THEN b
  ELSE IF b = 0 THEN a
  ELSE (IF (a % 2) + (b % 2) > 0 THEN 1 ELSE 0) + (2 * BitXor_or(a \div 2, b \div 2))

\* the ^ operator on two bytes
RECURSIVE BitXor(_, _)
BitXor(a, b) ==
  IF a = 0 THEN b
  ELSE IF b = 0 THEN a
  ELSE (((a % 2) + (b % 2)) % 2) + (2 * BitXor(a \div 2, b \div 2))

\* utils.get_control_summ: XOR of all bytes, as a one-byte string.  The
\* loop runs over the string from left to right; it is unfolded here half
\* by half, the left half first and its result computed before the right
\* half starts, so that strings of 250 bytes and more stay within the
\* evaluation depth; the string and its halves are computed once each
RECURSIVE XorFold(_, _)
XorFold(string, result) ==
  IF string = << >> THEN result
  ELSE IF Len(string) = 1 THEN BitXor(result, Head(string))
  ELSE LET h == Len(string) \div 2
       IN  CHOOSE x \in
             {CHOOSE y \in {XorFold(rt, left) : left \in {XorFold(lf, result)}} : TRUE :
                lf \in {SubSeq(string, 1, h)},
                rt \in {SubSeq(string, h + 1, Len(string))}} : TRUE

get_control_summ(string) == CHOOSE x \in {chr(XorFold(s, 0)) : s \in {string}} : TRUE

\* all byte strings over S of length 0..k
SeqsUpTo(S, k) == UNION {[1..m -> S] : m \in 0..k}

\* a read of at most k bytes: what the device may deliver before the timeout
DevRead(S, k) == IF k <= 0 THEN {<< >>} ELSE SeqsUpTo(S, k)

(* ----------------------------- credentials --------------------------- *)

\* conf.py, lines 23 and 25
DEFAULT_ADMIN_PASSWORD == <<30, 0, 0, 0>>
DEFAULT_PASSWORD == <<1, 0, 0, 0>>

\* a password argument: an int, or a list/tuple of ints
IntArg(k) == [kind |-> "int", i |-> k, s |-> << >>]
SeqArg(t) == [kind |-> "seq", i |-> 0, s |-> t]
\* the keyword is not given
Absent == [kind |-> "absent", i |-> 0, s |-> << >>]

\* what a function gives back: the value, or the exception it raised
Value(v) == [raised |-> "", v |-> v]
Raised(e) == [raised |-> e, v |-> << >>]

\* the four bytes of a non-negative int below 2^31, lowest first
LEBytes(u) ==
  <<u % 256, (u \div 256) % 256, (u \div 65536) % 256, (u \div 16777216) % 256>>

\* utils.int4.pack: struct format 'i' in native order (little-endian hosts),
\* two's complement for a negative value; post_value leaves 4 bytes as they are
int4_pack(v) ==
  IF v >= 0 THEN LEBytes(v)
  ELSE [k \in 1..4 |-> 255 - LEBytes((0 - v) - 1)[k]]

\* utils.digits2string, lines 145-149: ''.join of the chr(x) and
\* .encode('utf-8').  utils.py has unicode_literals, so '' is a unicode
\* string: joining a byte above 127 raises UnicodeDecodeError, and chr() of
\* a value outside 0..255 raises ValueError
digits2string(digits) ==
  IF \A k \in 1..Len(digits) : digits[k] \in 0..127
  THEN Value(digits)
  ELSE Raised("Exception")

\* password[:4]
FirstFour(t) == SubSeq(t, 1, IF Len(t) < 4 THEN Len(t) ELSE 4)

\* utils.password_prapare, lines 152-171
password_prapare(arg) ==
  IF arg.kind = "seq"
  THEN LET r == digits2string(FirstFour(arg.s))
       IN  IF r.raised = "" THEN r ELSE Raised("TypeError")
  ELSE IF arg.i > 9999 THEN Raised("ValueError")
  ELSE Value(int4_pack(arg.i))

\* BaseKKT.admin_password, line 125
admin_password == password_prapare(SeqArg(DEFAULT_ADMIN_PASSWORD)).v

\* conf.py
DEFAULT_PORT == "/dev/ttyUSB0"
DEFAULT_BOD == 4800

\* the class attributes of BaseKKT an instance may override (lines 123-126)
ClassAttrs ==
  [port |-> DEFAULT_PORT, password |-> password, admin_password |-> admin_password,
   bod |-> DEFAULT_BOD]

(* ------------------------- the device's choices ----------------------- *)

\* bytes the device may answer to ENQ (0 is "another byte")
StateBytes == {ACK, NAK, 0}

\* bytes the device may send while the host waits for STX
STXBytes == {STX, 0}

\* bytes the device may put into a response frame after the length byte
FrameBytes == {0, 1}

(* ------------------------- the caller's choices ----------------------- *)

\* opcodes given as an int (0x01) and as a two-byte string (0xFF 0x01)
IntCommands == {1}
StrCommands == {<<255, 1>>}

\* params: None, or an explicit byte string
ParamsArgs == {[none |-> TRUE, v |-> << >>], [none |-> FALSE, v |-> <<1>>]}

SleepArgs == {0, 1}

(* ------------------------------- state -------------------------------- *)

VARIABLES
  pc,              \* position of the running ask() call; "idle": no call runs
  calls,           \* ask() calls started so far
  has_conn,        \* hasattr(self, '_conn')
  conn,            \* self._conn: 0 is None, k > 0 the serial.Serial opened by call k
  is_open,         \* self._conn.isOpen(); FALSE while self._conn is None
  opened,          \* serial.Serial objects opened in this call
  command,         \* ask(): command, the byte string given to send() and read()
  args,            \* the sleep, disconnect and quick the caller passed to ask()
  quick,           \* ask(): quick
  disconnect,      \* ask(): disconnect, after lines 337-340
  conn_start,      \* self._conn when the call started
  caller,          \* the method that called ask(): "ask" for a direct call, "x14"
  new_bod,         \* x14(): new_bod, 0 outside x14
  port_result,     \* what serial.Serial(...) did in this call; "" while not called
  serial_bod,      \* the baud rate given to the latest serial.Serial(...); 0: none yet
  w_frame,         \* request frames written in this call
  w_enq,           \* ENQ bytes written in this call
  w_ack,           \* ACK bytes written in this call
  w_nak,           \* NAK bytes written in this call
  n_flush,         \* flush() calls in this call
  pre_flush,       \* flush() calls in this call before the request frame
  slept,           \* seconds of time.sleep(sleep) in ask() (line 349)
  last_write,      \* the bytes of the latest write to the channel
  ctx,             \* who called check_state: "first" (line 263) or "poll" (check_ACK)
  first_answer,    \* what the check_state of line 263 returned
  i,               \* read(): i, the NAK polling counter
  n,               \* check_STX(): n
  timeout,         \* check_STX(): timeout
  stx_sleep,       \* total time slept in check_STX()
  got_stx,         \* check_STX() returned True in this call
  response_length, \* read(): response_length, -1 while read() holds none
  r_command,       \* read(): command, the echoed opcode
  r_error,         \* read(): error
  r_data,          \* read(): data
  rx,              \* the bytes the latest read of the channel returned
  out,             \* how the latest call ended
  ret,             \* the tuple the latest call returned
  kwargs,          \* __init__(): the password and admin_password keyword arguments
  init_out,        \* how __init__ ended; "none" while no instance was made
  self_password,   \* self.password
  self_admin_password, \* self.admin_password
  params,          \* ask(): params as the caller passed it
  without_password, \* ask(): without_password
  self_bod,        \* self.bod
  self_port,       \* self.port
  cls,             \* the attributes of the class BaseKKT
  other,           \* a second instance: its __dict__ and its connection
  clear_n,         \* clear(): n
  clear_sleeps,    \* time.sleep(MIN_TIMEOUT*10) calls of clear()
  loop_arg,        \* the running x12_loop() or x17_loop() and its arguments
  text,            \* x12_loop(), x17_loop(): text, the part not yet printed
  last_result,     \* x12_loop(), x17_loop(): last_result, -1 for None
  loop_n,          \* ask() calls the running loop has made
  use_mutex,       \* the callers of the threads take a mutex around ask()
  holder,          \* the thread that holds the mutex, 0 for none
  th,              \* per thread: the position and the locals of its ask()
  inbuf,           \* bytes the device has sent that no read has taken, each
                   \* with the thread whose request it answers (0: none)
  pending,         \* the device: requests received and not yet answered
  mixed            \* the ways in which two ask() calls have interleaved

connVars  == <<has_conn, conn, is_open, opened>>
callVars  == <<calls, command, args, quick, disconnect, conn_start,
               caller, new_bod, port_result, serial_bod>>
wireVars  == <<w_frame, w_enq, w_ack, w_nak, n_flush, pre_flush, slept, last_write>>
hsVars    == <<ctx, first_answer, i>>
stxVars   == <<n, timeout, stx_sleep, got_stx>>
frameVars == <<response_length, r_command, r_error, r_data>>
outVars   == <<out, ret>>
instVars  == <<kwargs, init_out, self_password, self_admin_password, self_bod, self_port>>
sendVars  == <<params, without_password>>
objVars   == <<cls, other, clear_n, clear_sleeps>>
loopVars  == <<loop_arg, text, last_result, loop_n>>
thrVars   == <<use_mutex, holder, th, inbuf, pending, mixed>>

vars == <<pc, connVars, callVars, wireVars, rx, hsVars, stxVars, frameVars, outVars,
          instVars, sendVars, loopVars, thrVars, objVars>>

NoOut == [kind |-> "none", code |-> 0, msg |-> ""]
NoRet == [data |-> << >>, error |-> 0, command |-> << >>]
NoArgs == [sleep |-> 0, disconnect |-> TRUE, quick |-> FALSE]
\* BaseKKT() without keyword arguments
\* no keyword arguments besides the two passwords
NoRest == [set |-> {}, port |-> "", bod |-> 0]
NoKwargs == [password |-> Absent, admin_password |-> Absent, rest |-> NoRest]
\* params=None, the default of ask()
NoParams == [none |-> TRUE, v |-> << >>]
\* no second instance yet: nothing in its __dict__, no connection
Threads == {1, 2}

\* a thread that has not called ask()
NoThread ==
  [pc |-> "idle", command |-> << >>, disconnect |-> TRUE, ctx |-> "first", i |-> 0,
   n |-> 0, response_length |-> -1, r_command |-> << >>, r_error |-> << >>,
   r_data |-> << >>, out |-> "none", ret |-> [data |-> << >>, error |-> 0, command |-> << >>]]

\* no threads: one caller, no mutex taken, nothing from the device
NoThreads ==
  /\ use_mutex = FALSE /\ holder = 0
  /\ th = [t \in Threads |-> NoThread]
  /\ inbuf = << >> /\ pending = << >> /\ mixed = {}

\* no x12_loop() or x17_loop() is running
NoLoop == [name |-> "", text |-> << >>, control_tape |-> FALSE]
NoOther ==
  [made |-> FALSE, set |-> {}, port |-> "", password |-> << >>,
   admin_password |-> << >>, bod |-> 0, has_conn |-> FALSE, conn |-> 0]

Init ==
  /\ pc = "idle"
  /\ calls = 0
  /\ has_conn = FALSE /\ conn = 0 /\ is_open = FALSE /\ opened = 0
  /\ command = << >> /\ args = NoArgs /\ quick = FALSE /\ disconnect = TRUE
  /\ conn_start = 0
  /\ caller = "" /\ new_bod = 0 /\ port_result = "" /\ serial_bod = 0
  /\ w_frame = 0 /\ w_enq = 0 /\ w_ack = 0 /\ w_nak = 0
  /\ n_flush = 0 /\ pre_flush = 0 /\ slept = 0 /\ last_write = << >>
  /\ ctx = "first" /\ first_answer = "" /\ i = 0
  /\ n = 0 /\ timeout = MIN_TIMEOUT /\ stx_sleep = RZero
  /\ got_stx = FALSE
  /\ rx = << >>
  /\ response_length = -1 /\ r_command = << >> /\ r_error = << >>
  /\ r_data = << >>
  /\ out = NoOut /\ ret = NoRet
  /\ kwargs = NoKwargs /\ init_out = "ok"
  /\ self_password = password /\ self_admin_password = admin_password
  /\ params = NoParams /\ without_password = FALSE
  /\ self_bod = DEFAULT_BOD /\ self_port = DEFAULT_PORT
  /\ cls = ClassAttrs /\ other = NoOther
  /\ clear_n = 0 /\ clear_sleeps = 0
  /\ loop_arg = NoLoop /\ text = << >> /\ last_result = -1 /\ loop_n = 0
  /\ NoThreads

(* ------------------------- decisions of the code ---------------------- *)

\* a slip in lines 337-339: quick not switching disconnect off
EffDisconnect_ignoresQuick(q, d) == d

\* ask(), lines 337-340: quick switches disconnect and sleep off
EffDisconnect(q, d) == IF q THEN FALSE ELSE d

EffSleep(q, s) == IF q THEN 0 ELSE s

\* a slip in line 341: without_password not looked at
EffParams_alwaysPassword(none, p, wp) ==
  IF none THEN [none |-> FALSE, v |-> self_password]
  ELSE [none |-> none, v |-> p]

\* ask(), lines 341-342: the password stands in for params=None
EffParams(none, p, wp) ==
  IF none /\ ~wp THEN [none |-> FALSE, v |-> self_password]
  ELSE [none |-> none, v |-> p]

\* send(), lines 317-318: the flush before the frame
PreFlush(q) == ~q

\* force_bytes (not defined under src/): a byte string is given back as it is
force_bytes(s) == s

\* a slip in line 322: the length of the params alone
RequestFrame_lengthOfParams(cmd, p) ==
  LET data    == IF p.none THEN cmd ELSE cmd \o force_bytes(p.v)
      content == chr(Len(p.v)) \o data
  IN  chr(STX) \o content \o get_control_summ(content)

\* send(), lines 319-326: STX + chr(length) + data + control_summ
RequestFrame(cmd, p) ==
  LET data    == IF p.none THEN cmd ELSE cmd \o force_bytes(p.v)
      content == chr(Len(data)) \o data
  IN  chr(STX) \o content \o get_control_summ(content)

\* a slip in line 154: the held connection not recognised
conn_held_never(has, c) == FALSE

\* the conn property, line 154: hasattr(self, '_conn') and self._conn is not None
conn_held(has, c) == has /\ c # 0

\* a slip in lines 177-178: the port closed but self._conn kept
Disconnected_keepsConn(c) == c

\* disconnect(), lines 176-178, with a connection held: self._conn = None
Disconnected(c) == 0

\* a slip in lines 197-198: every answer that is not NAK or ACK raises
check_state_result_otherRaises(answer) ==
  IF answer \in {chr(NAK), chr(ACK)} THEN (IF answer = chr(NAK) THEN "NAK" ELSE "ACK")
  ELSE "raise"

\* check_state(), lines 195-198: the answer itself when it is NAK or ACK,
\* ConnectionError when it is empty, and otherwise the function falls off
\* its end and returns None
check_state_result(answer) ==
  IF answer \in {chr(NAK), chr(ACK)} THEN (IF answer = chr(NAK) THEN "NAK" ELSE "ACK")
  ELSE IF answer = << >> THEN "raise"
  ELSE "None"

\* read(), lines 264-273: what follows the first check_state
FirstStateBranch(res) ==
  IF res = "NAK" THEN "poll"
  ELSE IF res = "None" THEN "close"
  ELSE "stx"

\* check_ACK(), lines 227-230
check_ACK_result(res) == res = "ACK"

\* read(), line 266: the polling loop goes on
PollAgain(k) == k < MAX_ATTEMPT

\* a slip in line 208: the attempts not bounded
STXKeepWaiting_forever(answer, k) == answer = << >>

\* check_STX(), line 208: the loop condition
STXKeepWaiting(answer, k) == answer = << >> /\ k < MAX_ATTEMPT

\* a slip in line 212: the timeout doubled
NextTimeout_doubled(t) == RMul(t, [n |-> 2, d |-> 1])

\* check_STX(), line 212: timeout *= 1.5
NextTimeout(t) == RMul(t, [n |-> 3, d |-> 2])

\* a slip in line 213: any byte taken for STX
STXAccepted_anyByte(answer) == answer # << >>

\* check_STX(), line 213
STXAccepted(answer) == answer = chr(STX)

\* a slip in line 283: the error byte not counted
DataLength_noError(rl, cmd) == rl - Len(cmd)

\* read(), line 283
DataLength(rl, cmd) == rl - Len(cmd) - 1

\* a slip in line 288: the length never compared
LengthMismatch_never(data_length, data) == FALSE

\* read(), line 288
LengthMismatch(data_length, data) == data_length # Len(data)

\* a slip in lines 296-298: the length byte left out of the sum
ChecksumMismatch_noLength(cread, rl, cmd, err, data) ==
  cread # get_control_summ(cmd \o err \o data)

\* a slip in line 299: the checksum never compared
ChecksumMismatch_never(cread, rl, cmd, err, data) == FALSE

\* read(), lines 296-299
ChecksumMismatch(cread, rl, cmd, err, data) ==
  cread # get_control_summ(chr(rl) \o cmd \o err \o data)

\* a slip in lines 352-355: the error raised before the disconnect
ConnAfterFinish_never(c, d) == c

\* ask(), lines 352-353: self._conn after "if disconnect: self.disconnect()"
ConnAfterFinish(c, d) == IF d THEN Disconnected(c) ELSE c

\* a slip in line 354: only codes above 1 taken as errors
ErrorRaised_aboveOne(error) == error > 1

\* ask(), line 354: "if error:" on the int error code
ErrorRaised(error) == error # 0

\* KktError.__init__, lines 42-45: an int value is looked up in BUGS
\* (protocol.py); the table is taken to hold every code the device reports
BUGS_has(code) == TRUE

\* a slip in line 693: the attribute of the class rebound (BaseKKT.bod = ...)
BindsInstance_class == FALSE

\* lines 138, 140, 144 and 693: an assignment through self binds the name
\* in the __dict__ of the instance, and the class keeps its own
BindsInstance == TRUE

\* a slip in lines 692-693: the baud rate rebound although ask() raised
X14Binds_always(error) == TRUE

\* x14(), lines 692-693: the assignment is reached when ask() has returned,
\* that is when the error code of the response is 0 (ask(), line 354)
X14Binds(error) == ~ErrorRaised(error)

\* x14(), line 693: self.bod = new_bod
BindBod(v) ==
  /\ self_bod' = v
  /\ cls' = IF BindsInstance THEN cls ELSE [cls EXCEPT !.bod = v]

(* --------------------------- ending a call ---------------------------- *)

\* a slip in line 350: the opcode of the request returned
ReturnedCommand_sent(sent, echoed) == sent

\* ask(), line 350: command is rebound to a['command'], the opcode read()
\* took from the response, and line 356 returns it
ReturnedCommand(sent, echoed) == echoed

\* the locals of read() (lines 281-287) while it runs, and none once it
\* has returned or raised
Locals(rl, cmd, err, data) ==
  /\ response_length' = rl
  /\ r_command' = cmd
  /\ r_error' = err
  /\ r_data' = data

NoLocals == Locals(-1, << >>, << >>, << >>)

\* an exception leaves ask(): the call is over
Raise(kind, code, msg) ==
  /\ pc' = "idle"
  /\ out' = [kind |-> kind, code |-> code, msg |-> msg]
  /\ ret' = NoRet

\* ask() returns (answer, error, command), line 356
Return(data, error, cmd) ==
  /\ pc' = "idle"
  /\ out' = [kind |-> "return", code |-> 0, msg |-> ""]
  /\ ret' = [data |-> data, error |-> error, command |-> cmd]

\* a slip in lines 289, 300, 305: the answer byte not written
WriteAnswer_silent(b) == UNCHANGED <<last_write, w_ack, w_nak>>

\* a slip in lines 289 and 300: ACK written where NAK belongs
WriteAnswer_alwaysAck(b) ==
  /\ last_write' = chr(ACK)
  /\ w_ack' = w_ack + 1
  /\ w_nak' = w_nak

\* the byte written back for the response (lines 289, 300, 305)
WriteAnswer(b) ==
  /\ last_write' = chr(b)
  /\ w_ack' = IF b = ACK THEN w_ack + 1 ELSE w_ack
  /\ w_nak' = IF b = NAK THEN w_nak + 1 ELSE w_nak

(* ------------------------------ ask/send ------------------------------ *)

\* what serial.Serial(...) may do (line 162): give an open port, raise
\* SerialException, or give a port that is not open (as it does for port=None)
PortResults == {"open", "SerialException", "closed"}

\* a slip in line 172: check_port() left out of connect()
connect_result_noCheckPort(port) ==
  IF port = "SerialException" THEN "ConnectionError" ELSE "True"

\* connect(), lines 161-172, and check_port(), lines 183-185
connect_result(port) ==
  IF port = "open" THEN "True" ELSE "ConnectionError"

\* connect(), line 162: self._conn is bound unless serial.Serial raised
ConnBound(port) == port # "SerialException"

\* the message of the ConnectionError of connect() (lines 170, 184)
ConnectMsg(port) == IF port = "closed" THEN "port closed" ELSE "connect"

\* ask(), lines 337-349: the arguments, send() and the sleep.  The first
\* use of self.conn (in send) opens the port when no connection is held;
\* connect() raises ConnectionError before anything is written when
\* serial.Serial raises or gives a port that is not open.  In the second
\* case self._conn stays bound to that port, and the channel raises its own
\* SerialException on the first flush or write of every later call.
Ask(cmd, p, s, wp, d, q) ==
  /\ pc = "idle"
  /\ out = NoOut
  /\ UNCHANGED <<instVars, sendVars, objVars>>
  /\ calls < MaxCalls
  /\ calls' = calls + 1
  /\ args' = [sleep |-> s, disconnect |-> d, quick |-> q]
  /\ command' = cmd
  /\ quick' = q
  /\ disconnect' = EffDisconnect(q, d)
  /\ conn_start' = conn
  /\ w_enq' = 0 /\ w_ack' = 0 /\ w_nak' = 0
  /\ ctx' = "first" /\ first_answer' = "" /\ i' = 0
  /\ n' = 0 /\ timeout' = MIN_TIMEOUT /\ stx_sleep' = RZero
  /\ got_stx' = FALSE
  /\ rx' = << >>
  /\ response_length' = -1 /\ r_command' = << >> /\ r_error' = << >>
  /\ r_data' = << >>
  /\ \E port \in PortResults :
       LET held == conn_held(has_conn, conn) IN
       /\ held => port = "open"
       /\ port_result' = (IF held THEN "" ELSE port)
       /\ serial_bod' = (IF held THEN serial_bod ELSE self_bod)
       /\ IF ~held /\ connect_result(port) # "True"
          THEN /\ Raise("ConnectionError", 0, ConnectMsg(port))
               /\ w_frame' = 0 /\ n_flush' = 0 /\ pre_flush' = 0 /\ slept' = 0
               /\ last_write' = << >>
               /\ IF ConnBound(port)
                  THEN /\ conn' = calls + 1 /\ has_conn' = TRUE /\ opened' = 1
                       /\ is_open' = FALSE
                  ELSE opened' = 0 /\ UNCHANGED <<has_conn, conn, is_open>>
          ELSE IF held /\ ~is_open
          THEN /\ Raise("SerialException", 0, "port not open")
               /\ w_frame' = 0 /\ n_flush' = 0 /\ pre_flush' = 0 /\ slept' = 0
               /\ last_write' = << >>
               /\ opened' = 0 /\ UNCHANGED <<has_conn, conn, is_open>>
          ELSE /\ IF ~held
                  THEN /\ conn' = calls + 1 /\ opened' = 1 /\ has_conn' = TRUE
                       /\ is_open' = (port = "open")
                  ELSE opened' = 0 /\ UNCHANGED <<has_conn, conn, is_open>>
               /\ pre_flush' = (IF PreFlush(q) THEN 1 ELSE 0)
               /\ n_flush' = (IF PreFlush(q) THEN 1 ELSE 0) + 1
               /\ w_frame' = 1
               /\ last_write' = RequestFrame(cmd, EffParams(p.none, p.v, wp))
               /\ slept' = EffSleep(q, s)
               /\ pc' = "check_state"
               /\ out' = NoOut /\ ret' = NoRet

\* ask() called by the user of the object
AskSend(cmd, p, s, wp, d, q) ==
  /\ Ask(cmd, p, s, wp, d, q)
  /\ caller' = "ask" /\ new_bod' = 0
  /\ UNCHANGED <<loopVars, thrVars>>

(* ----------------------------- check_state ---------------------------- *)

\* a slip in check_state(): the request frame written again before the ENQ
CheckStateWrite_resend ==
  /\ pc = "check_state"
  /\ UNCHANGED <<instVars, sendVars, loopVars, thrVars, objVars>>
  /\ w_frame' = w_frame + 1
  /\ w_enq' = w_enq + 1
  /\ last_write' = chr(ENQ)
  /\ pc' = "cs_read1"
  /\ UNCHANGED <<connVars, callVars, w_ack, w_nak, n_flush, pre_flush,
                 slept, rx, hsVars, stxVars, frameVars, outVars>>

\* check_state(), lines 189-190: check_port() and the ENQ
CheckStateWrite ==
  /\ pc = "check_state"
  /\ UNCHANGED <<instVars, sendVars, loopVars, thrVars, objVars>>
  /\ w_enq' = w_enq + 1
  /\ last_write' = chr(ENQ)
  /\ pc' = "cs_read1"
  /\ UNCHANGED <<connVars, callVars, w_frame, w_ack, w_nak, n_flush, pre_flush,
                 slept, rx, hsVars, stxVars, frameVars, outVars>>

\* check_state() returns or raises, and read() goes on from there:
\* lines 195-198, then 264-273 (ctx "first") or check_ACK and 266-270 ("poll")
CheckStateReturn(answer) ==
  LET res == check_state_result(answer) IN
  IF res = "raise"
  THEN /\ Raise("ConnectionError", 0, "no answer to ENQ")
       /\ UNCHANGED <<connVars, hsVars>>
  ELSE IF ctx = "first"
  THEN /\ first_answer' = res
       /\ i' = 0
       /\ IF FirstStateBranch(res) = "poll"
          THEN /\ ctx' = "poll"
               /\ IF PollAgain(0)
                  THEN pc' = "check_state" /\ UNCHANGED <<connVars, outVars>>
                  ELSE /\ conn' = Disconnected(conn)
                       /\ Raise("ConnectionError", 0, "no ACK")
                       /\ is_open' = FALSE
                       /\ UNCHANGED <<has_conn, opened>>
          ELSE IF FirstStateBranch(res) = "close"
          THEN /\ conn' = Disconnected(conn)
               /\ Raise("ConnectionError", 0, "no answer")
               /\ is_open' = FALSE
               /\ UNCHANGED <<has_conn, opened, ctx>>
          ELSE /\ pc' = "stx_read"
               /\ UNCHANGED <<connVars, ctx, outVars>>
  ELSE IF check_ACK_result(res)
  THEN /\ pc' = "stx_read"
       /\ UNCHANGED <<connVars, hsVars, outVars>>
  ELSE /\ i' = i + 1
       /\ UNCHANGED <<ctx, first_answer>>
       /\ IF PollAgain(i + 1)
          THEN pc' = "check_state" /\ UNCHANGED <<connVars, outVars>>
          ELSE /\ conn' = Disconnected(conn)
               /\ Raise("ConnectionError", 0, "no ACK")
               /\ is_open' = FALSE
               /\ UNCHANGED <<has_conn, opened>>

\* check_state(), lines 191-193: the first read; an empty answer leads to
\* time.sleep(MIN_TIMEOUT) and a second read
CheckStateRead1 ==
  /\ pc = "cs_read1"
  /\ UNCHANGED <<instVars, sendVars, loopVars, thrVars, objVars>>
  /\ \E answer \in DevRead(StateBytes, 1) :
       /\ rx' = answer
       /\ IF answer = << >>
          THEN pc' = "cs_read2" /\ UNCHANGED <<connVars, hsVars, outVars>>
          ELSE CheckStateReturn(answer)
  /\ UNCHANGED <<callVars, wireVars, stxVars, frameVars>>

\* check_state(), line 194: the second read
CheckStateRead2 ==
  /\ pc = "cs_read2"
  /\ UNCHANGED <<instVars, sendVars, loopVars, thrVars, objVars>>
  /\ \E answer \in DevRead(StateBytes, 1) :
       /\ rx' = answer
       /\ CheckStateReturn(answer)
  /\ UNCHANGED <<callVars, wireVars, stxVars, frameVars>>

(* ------------------------------ check_STX ----------------------------- *)

\* a slip in lines 213-216: check_STX returning False for a byte that is
\* not STX, so that the loop of read() over j calls it again
STXReturn_retries(answer, k, t, slp) ==
  IF STXAccepted(answer)
  THEN /\ pc' = "len"
       /\ got_stx' = TRUE
       /\ n' = 0 /\ timeout' = MIN_TIMEOUT /\ stx_sleep' = RZero
       /\ UNCHANGED outVars
  ELSE /\ pc' = "stx_read"
       /\ n' = 0 /\ timeout' = MIN_TIMEOUT /\ stx_sleep' = slp
       /\ UNCHANGED <<got_stx, outVars>>

\* check_STX(), lines 213-216, and read(), lines 275-279: check_STX returns
\* True or raises, so the loop over j ends with j = 0 either way.  The
\* locals n and timeout end with check_STX when it returns; they are kept
\* as they were when it raises.
STXReturn(answer, k, t, slp) ==
  IF STXAccepted(answer)
  THEN /\ pc' = "len"
       /\ got_stx' = TRUE
       /\ n' = 0 /\ timeout' = MIN_TIMEOUT /\ stx_sleep' = RZero
       /\ UNCHANGED outVars
  ELSE /\ Raise("ConnectionError", 0, "no STX")
       /\ n' = k /\ timeout' = t /\ stx_sleep' = slp
       /\ UNCHANGED got_stx

\* check_STX(), lines 202-208: the first read
CheckSTXRead ==
  /\ pc = "stx_read"
  /\ UNCHANGED <<instVars, sendVars, loopVars, thrVars, objVars>>
  /\ \E answer \in DevRead(STXBytes, 1) :
       /\ rx' = answer
       /\ IF STXKeepWaiting(answer, 0)
          THEN /\ pc' = "stx_retry"
               /\ n' = 0 /\ timeout' = MIN_TIMEOUT /\ stx_sleep' = RZero
               /\ UNCHANGED <<got_stx, outVars>>
          ELSE STXReturn(answer, 0, MIN_TIMEOUT, RZero)
  /\ UNCHANGED <<connVars, callVars, wireVars, hsVars, frameVars>>

\* check_STX(), lines 209-212: sleep, read again, count, lengthen the timeout
CheckSTXRetry ==
  /\ pc = "stx_retry"
  /\ UNCHANGED <<instVars, sendVars, loopVars, thrVars, objVars>>
  /\ \E answer \in DevRead(STXBytes, 1) :
       /\ rx' = answer
       /\ IF STXKeepWaiting(answer, n + 1)
          THEN /\ pc' = "stx_retry"
               /\ stx_sleep' = RAdd(stx_sleep, timeout)
               /\ n' = n + 1
               /\ timeout' = NextTimeout(timeout)
               /\ UNCHANGED <<got_stx, outVars>>
          ELSE STXReturn(answer, n + 1, NextTimeout(timeout), RAdd(stx_sleep, timeout))
  /\ UNCHANGED <<connVars, callVars, wireVars, hsVars, frameVars>>

(* ---------------------------- the response ---------------------------- *)

\* read(), line 281: ord() of an empty read raises TypeError
ReadLength ==
  /\ pc = "len"
  /\ UNCHANGED <<instVars, sendVars, loopVars, thrVars, objVars>>
  /\ \E r \in {<< >>} \cup {chr(l) : l \in 0..MaxRespLen} :
       /\ rx' = r
       /\ IF r = << >>
          THEN Raise("TypeError", 0, "ord of empty length") /\ NoLocals
          ELSE /\ Locals(ord(r), << >>, << >>, << >>)
               /\ pc' = "cmd"
               /\ UNCHANGED outVars
  /\ UNCHANGED <<connVars, callVars, wireVars, hsVars, stxVars>>

\* the bytes the device may echo as opcode
EchoBytes == {1, 255}

\* read(), line 285
ReadCommand ==
  /\ pc = "cmd"
  /\ UNCHANGED <<instVars, sendVars, loopVars, thrVars, objVars>>
  /\ \E r \in DevRead(EchoBytes, Len(command)) :
       /\ rx' = r
       /\ Locals(response_length, r, << >>, << >>)
  /\ pc' = "err"
  /\ UNCHANGED <<connVars, callVars, wireVars, hsVars, stxVars, outVars>>

\* error bytes the device may report
ErrorBytes == {0, 1, 2}

\* read(), line 286
ReadError ==
  /\ pc = "err"
  /\ UNCHANGED <<instVars, sendVars, loopVars, thrVars, objVars>>
  /\ \E r \in DevRead(ErrorBytes, 1) :
       /\ rx' = r
       /\ Locals(response_length, r_command, r, << >>)
  /\ pc' = "data"
  /\ UNCHANGED <<connVars, callVars, wireVars, hsVars, stxVars, outVars>>

\* read(), lines 287-293
ReadData ==
  /\ pc = "data"
  /\ UNCHANGED <<instVars, sendVars, loopVars, thrVars, objVars>>
  /\ LET data_length == DataLength(response_length, command) IN
     \E r \in DevRead(FrameBytes, data_length) :
       /\ rx' = r
       /\ IF LengthMismatch(data_length, r)
          THEN /\ WriteAnswer(NAK)
               /\ conn' = Disconnected(conn)
               /\ Raise("KktError", 0, "length")
               /\ NoLocals
               /\ is_open' = FALSE
               /\ UNCHANGED <<has_conn, opened>>
          ELSE /\ pc' = "control"
               /\ Locals(response_length, r_command, r_error, r)
               /\ UNCHANGED <<connVars, w_ack, w_nak, last_write, outVars>>
  /\ UNCHANGED <<callVars, w_frame, w_enq, n_flush, pre_flush, slept, hsVars, stxVars>>

\* read(), lines 295-312.  A failed check writes NAK and disconnects, then
\* formats the message with ord(control_read), which raises TypeError when
\* the read was empty.  A passed check writes ACK and flushes, then builds
\* the result with ord(error), which raises TypeError when error is empty.
ReadControl ==
  /\ pc = "control"
  /\ UNCHANGED <<instVars, sendVars, loopVars, thrVars, objVars>>
  /\ \E control_read \in {<< >>} \cup {chr(b) : b \in FrameBytes}
             \cup {get_control_summ(chr(response_length) \o r_command \o r_error \o r_data)} :
       /\ rx' = control_read
       /\ IF ChecksumMismatch(control_read, response_length, r_command, r_error, r_data)
          THEN /\ WriteAnswer(NAK)
               /\ conn' = Disconnected(conn)
               /\ IF control_read = << >>
                  THEN Raise("TypeError", 0, "ord of empty checksum")
                  ELSE Raise("KktError", 0, "checksum")
               /\ NoLocals
               /\ is_open' = FALSE
               /\ UNCHANGED <<has_conn, opened, n_flush>>
          ELSE /\ WriteAnswer(ACK)
               /\ n_flush' = n_flush + 1
               /\ IF r_error = << >>
                  THEN Raise("TypeError", 0, "ord of empty error") /\ NoLocals
                  ELSE /\ pc' = "finish"
                       /\ UNCHANGED <<frameVars, outVars>>
               /\ UNCHANGED connVars
  /\ UNCHANGED <<callVars, w_frame, w_enq, pre_flush, slept, hsVars, stxVars>>

\* ask(), lines 351-356, on the dict read() returned
AskFinish ==
  /\ pc = "finish"
  /\ UNCHANGED <<sendVars, loopVars, thrVars, clear_n, clear_sleeps, other>>
  /\ UNCHANGED <<kwargs, init_out, self_password, self_admin_password, self_port>>
  /\ IF caller = "x14" /\ X14Binds(ord(r_error))
     THEN BindBod(new_bod)
     ELSE UNCHANGED <<self_bod, cls>>
  /\ conn' = ConnAfterFinish(conn, disconnect)
  /\ is_open' = (IF disconnect THEN FALSE ELSE is_open)
  /\ IF ErrorRaised(ord(r_error))
     THEN Raise(IF BUGS_has(ord(r_error)) THEN "KktError" ELSE "KeyError",
                ord(r_error), "device")
     ELSE Return(r_data, ord(r_error), ReturnedCommand(command, r_command))
  /\ NoLocals
  /\ UNCHANGED <<has_conn, opened, callVars, wireVars, rx, hsVars, stxVars>>

\* ask() has returned or raised and the caller has taken the tuple or the
\* exception: nothing of the finished call is left but the instance with
\* its connection.  The next ask() starts from here.  (The tuple that an
\* x12() or x17() inside a running loop got is taken by LoopNext.)
ResultTaken ==
  /\ pc = "idle"
  /\ out # NoOut
  /\ ~(loop_arg.name # "" /\ out.kind = "return" /\ out.msg = "")
  /\ loop_arg' = NoLoop /\ text' = << >> /\ last_result' = -1 /\ loop_n' = 0
  /\ opened' = 0
  /\ command' = << >> /\ args' = NoArgs /\ quick' = FALSE /\ disconnect' = TRUE
  /\ conn_start' = 0
  /\ caller' = "" /\ new_bod' = 0 /\ port_result' = ""
  /\ w_frame' = 0 /\ w_enq' = 0 /\ w_ack' = 0 /\ w_nak' = 0
  /\ n_flush' = 0 /\ pre_flush' = 0 /\ slept' = 0 /\ last_write' = << >>
  /\ ctx' = "first" /\ first_answer' = "" /\ i' = 0
  /\ n' = 0 /\ timeout' = MIN_TIMEOUT /\ stx_sleep' = RZero
  /\ got_stx' = FALSE
  /\ rx' = << >>
  /\ out' = NoOut /\ ret' = NoRet
  /\ clear_n' = 0 /\ clear_sleeps' = 0
  /\ UNCHANGED <<pc, calls, has_conn, conn, is_open, serial_bod, frameVars, instVars,
                 sendVars, thrVars, cls, other>>

(* ------------------------------ behaviour ----------------------------- *)

Next ==
  \/ \E c \in IntCommands, p \in ParamsArgs, s \in SleepArgs,
        wp \in BOOLEAN, d \in BOOLEAN, q \in BOOLEAN :
       AskSend(chr(c), p, s, wp, d, q)
  \/ \E c \in StrCommands, p \in ParamsArgs, s \in SleepArgs,
        wp \in BOOLEAN, d \in BOOLEAN, q \in BOOLEAN :
       AskSend(c, p, s, wp, d, q)
  \/ CheckStateWrite
  \/ CheckStateRead1
  \/ CheckStateRead2
  \/ CheckSTXRead
  \/ CheckSTXRetry
  \/ ReadLength
  \/ ReadCommand
  \/ ReadError
  \/ ReadData
  \/ ReadControl
  \/ AskFinish
  \/ ResultTaken

Spec == Init /\ [][Next]_vars

\* the steps of a running ask(): each is a channel write, or a channel read
\* that returns, with bytes or empty, when its timeout ends
CallStep ==
  \/ CheckStateWrite
  \/ CheckStateRead1
  \/ CheckStateRead2
  \/ CheckSTXRead
  \/ CheckSTXRetry
  \/ ReadLength
  \/ ReadCommand
  \/ ReadError
  \/ ReadData
  \/ ReadControl
  \/ AskFinish

\* ask() is sequential code: once called it goes on as long as the channel
\* gives back control, and every read of the channel does so after its
\* timeout at the latest.  Nothing obliges the caller to call again.
\* The caller's arguments that do not bear on the loops of read() are left
\* at their defaults here; the device chooses every answer as above.
NextFair ==
  \/ \E d \in BOOLEAN, q \in BOOLEAN : AskSend(chr(1), NoParams, 0, FALSE, d, q)
  \/ CallStep
  \/ ResultTaken

SpecFair == Init /\ [][NextFair]_vars /\ WF_vars(CallStep)

(* ------------------- construction, send() and read() ------------------ *)
(* The same code as functions of their arguments: __init__ with password   *)
(* arguments, ask() up to the return of send() for opcodes and params of   *)
(* many lengths, and the parsing of read() applied to a given byte stream. *)

\* longest params string enumerated byte by byte
MaxParams == 2

\* bytes of the enumerated params strings
ParamBytes == {0, 1, 3}

\* lengths of the long params strings (all bytes 0): around the largest
\* length one byte can hold
LongLens == {252, 253, 255}

\* params given to ask()
SendParams ==
  {NoParams}
    \cup {[none |-> FALSE, v |-> t] : t \in SeqsUpTo(ParamBytes, MaxParams)}
    \cup {[none |-> FALSE, v |-> [k \in 1..m |-> 0]] : m \in LongLens}

\* password arguments given to BaseKKT()
PasswordArgs ==
  {Absent, IntArg(9999), IntArg(10000), IntArg(0 - 1),
   SeqArg(<<1, 2>>), SeqArg(<<1, 2, 3, 4, 5>>), SeqArg(<<200, 0, 0, 0>>)}

AdminPasswordArgs == {Absent, SeqArg(<<30, 0>>)}

\* the class before any instance is made: the class attributes hold the
\* default credentials (lines 124-125)
InitClass ==
  /\ pc = "idle"
  /\ calls = 0
  /\ has_conn = FALSE /\ conn = 0 /\ is_open = FALSE /\ opened = 0
  /\ command = << >> /\ args = NoArgs /\ quick = FALSE /\ disconnect = TRUE
  /\ conn_start = 0
  /\ caller = "" /\ new_bod = 0 /\ port_result = "" /\ serial_bod = 0
  /\ w_frame = 0 /\ w_enq = 0 /\ w_ack = 0 /\ w_nak = 0
  /\ n_flush = 0 /\ pre_flush = 0 /\ slept = 0 /\ last_write = << >>
  /\ ctx = "first" /\ first_answer = "" /\ i = 0
  /\ n = 0 /\ timeout = MIN_TIMEOUT /\ stx_sleep = RZero
  /\ got_stx = FALSE
  /\ rx = << >>
  /\ response_length = -1 /\ r_command = << >> /\ r_error = << >>
  /\ r_data = << >>
  /\ out = NoOut /\ ret = NoRet
  /\ kwargs = NoKwargs /\ init_out = "none"
  /\ self_password = password /\ self_admin_password = admin_password
  /\ params = NoParams /\ without_password = FALSE
  /\ self_bod = DEFAULT_BOD /\ self_port = DEFAULT_PORT
  /\ cls = ClassAttrs /\ other = NoOther
  /\ clear_n = 0 /\ clear_sleeps = 0
  /\ loop_arg = NoLoop /\ text = << >> /\ last_result = -1 /\ loop_n = 0
  /\ NoThreads

\* __init__, lines 137-144: each password keyword that is given goes
\* through password_prapare, and an exception of the first leaves the
\* second untouched; the keywords left over are bound with setattr
Construct(pw, apw, rest) ==
  /\ init_out = "none"
  /\ kwargs' = [password |-> pw, admin_password |-> apw, rest |-> rest]
  /\ LET r1 == IF pw.kind = "absent" THEN Value(self_password)
               ELSE password_prapare(pw)
         r2 == IF apw.kind = "absent" THEN Value(self_admin_password)
               ELSE password_prapare(apw)
     IN  IF r1.raised # ""
         THEN init_out' = r1.raised
              /\ UNCHANGED <<self_password, self_admin_password, self_bod, self_port, cls>>
         ELSE IF r2.raised # ""
         THEN init_out' = r2.raised
              /\ self_password' = r1.v
              /\ UNCHANGED <<self_admin_password, self_bod, self_port, cls>>
         ELSE init_out' = "ok"
              /\ self_password' = r1.v /\ self_admin_password' = r2.v
              /\ self_bod' = (IF "bod" \in rest.set THEN rest.bod ELSE self_bod)
              /\ self_port' = (IF "port" \in rest.set THEN rest.port ELSE self_port)
              /\ cls' = IF BindsInstance THEN cls
                        ELSE [cls EXCEPT
                                !.password = r1.v, !.admin_password = r2.v,
                                !.bod = IF "bod" \in rest.set THEN rest.bod ELSE @,
                                !.port = IF "port" \in rest.set THEN rest.port ELSE @]
  /\ UNCHANGED <<pc, connVars, callVars, wireVars, rx, hsVars, stxVars, frameVars,
                 outVars, sendVars, loopVars, thrVars, other, clear_n, clear_sleeps>>

\* a slip in line 323: the length taken modulo 256
FrameFits_wrapped(data) == TRUE

\* send(), line 323: chr(length) raises ValueError above 255
FrameFits(data) == Len(data) <= 255

\* ask(), lines 341-347, with sleep, disconnect and quick left at their
\* defaults, up to the return of send(): the port opens, send() flushes,
\* builds the frame and writes it, or chr(length) raises before the write
AskToSend(cmd, p, wp) ==
  /\ init_out = "ok"
  /\ pc = "idle" /\ calls = 0
  /\ calls' = 1
  /\ command' = cmd /\ params' = p /\ without_password' = wp
  /\ conn' = 1 /\ is_open' = TRUE /\ opened' = 1 /\ has_conn' = TRUE
  /\ pre_flush' = 1
  /\ LET e    == EffParams(p.none, p.v, wp)
         data == IF e.none THEN cmd ELSE cmd \o force_bytes(e.v)
     IN  IF FrameFits(data)
         THEN /\ last_write' = RequestFrame(cmd, e)
              /\ w_frame' = 1 /\ n_flush' = 2
              /\ pc' = "sent"
              /\ UNCHANGED outVars
         ELSE /\ Raise("ValueError", 0, "chr of length")
              /\ n_flush' = 1
              /\ UNCHANGED <<last_write, w_frame>>
  /\ serial_bod' = self_bod
  /\ UNCHANGED <<args, quick, disconnect, conn_start, caller, new_bod, port_result,
                 w_enq, w_ack, w_nak, slept, rx, hsVars, stxVars, frameVars, instVars,
                 loopVars, thrVars, objVars>>

\* a read of k bytes from the bytes at hand, and what is left after it
Take(stream, k) ==
  SubSeq(stream, 1, IF k <= 0 THEN 0 ELSE IF k < Len(stream) THEN k ELSE Len(stream))
Drop(stream, k) ==
  SubSeq(stream, (IF k <= 0 THEN 0 ELSE IF k < Len(stream) THEN k ELSE Len(stream)) + 1,
         Len(stream))

Parsed(kind, rl, cmd, err, data) ==
  [kind |-> kind, response_length |-> rl, command |-> cmd, error |-> err, data |-> data]

\* read(), lines 281-312, on the bytes the device sends after STX; w is the
\* request's command
read_frame(stream, w) ==
  LET l == Take(stream, 1) IN
  IF l = << >> THEN Parsed("TypeError", -1, << >>, << >>, << >>) ELSE
  LET rl   == ord(l)
      s1   == Drop(stream, 1)
      cmd  == Take(s1, Len(w))
      s2   == Drop(s1, Len(w))
      err  == Take(s2, 1)
      s3   == Drop(s2, 1)
      dl   == DataLength(rl, w)
      data == Take(s3, dl)
      s4   == Drop(s3, dl)
      cread == Take(s4, 1)
  IN  IF LengthMismatch(dl, data) THEN Parsed("length", rl, cmd, err, data)
      ELSE IF ChecksumMismatch(cread, rl, cmd, err, data)
      THEN Parsed(IF cread = << >> THEN "TypeError" ELSE "checksum", rl, cmd, err, data)
      ELSE IF err = << >> THEN Parsed("TypeError", rl, cmd, err, data)
      ELSE Parsed("ok", rl, cmd, err, data)

\* a slip in line 289: ACK written for a length mismatch
AnswerFor_ackLength(r) ==
  IF r.kind \in {"ok", "length"} THEN ACK
  ELSE IF r.response_length = -1 THEN 0 ELSE NAK

\* read(), lines 288-305: the byte written back for what was parsed.  ACK
\* when both checks passed, NAK when one failed (an empty checksum read
\* fails the second check before its message raises TypeError), and nothing
\* (0) when the length byte itself was missing (line 281 raises)
AnswerFor(r) ==
  IF r.kind = "ok" THEN ACK
  ELSE IF r.response_length = -1 THEN 0 ELSE NAK

\* the byte at place pos replaced by b; place 0 leaves the string as it is
Changed(stream, pos, b) ==
  [k \in 1..Len(stream) |-> IF k = pos THEN b ELSE stream[k]]

\* how far from the front or from the end of a frame a byte is changed
MaxChangePos == 5

\* values a changed byte takes
ChangeBytes == {0, 1, 2, 3}

\* read() parses the request frame as the device would send it back after
\* STX, as it is (k = 0) or with one byte changed: the k-th byte from the
\* front, or from the end.  The answer byte is counted; last_write keeps the
\* request frame, which the bytes read are compared with.
ReadBack(k, from_end, b) ==
  /\ pc = "sent"
  /\ LET stream == Tail(last_write)
         pos    == IF from_end THEN (Len(stream) + 1) - k ELSE k
     IN
     /\ k <= Len(stream)
     /\ k = 0 => (b = 0 /\ ~from_end)
     /\ k > 0 => b # stream[pos]
     /\ rx' = Changed(stream, IF k = 0 THEN 0 ELSE pos, b)
     /\ LET r == read_frame(Changed(stream, IF k = 0 THEN 0 ELSE pos, b), command) IN
        /\ Locals(r.response_length, r.command, r.error, r.data)
        /\ out' = [kind |-> r.kind, code |-> 0, msg |-> ""]
        /\ w_ack' = IF AnswerFor(r) = ACK THEN w_ack + 1 ELSE w_ack
        /\ w_nak' = IF AnswerFor(r) = NAK THEN w_nak + 1 ELSE w_nak
  /\ pc' = "parsed"
  /\ UNCHANGED <<connVars, callVars, w_frame, w_enq, n_flush, pre_flush, slept,
                 last_write, hsVars, stxVars, ret, instVars, sendVars, loopVars, thrVars, objVars>>

NextCodec ==
  \/ \E pw \in PasswordArgs, apw \in AdminPasswordArgs : Construct(pw, apw, NoRest)
  \/ \E c \in IntCommands, p \in SendParams, wp \in BOOLEAN : AskToSend(chr(c), p, wp)
  \/ \E c \in StrCommands, p \in SendParams, wp \in BOOLEAN : AskToSend(c, p, wp)
  \/ \E k \in 0..MaxChangePos, from_end \in BOOLEAN, b \in ChangeBytes :
       ReadBack(k, from_end, b)

SpecCodec == InitClass /\ [][NextCodec]_vars

(* ------------------- the other methods of the object ------------------ *)
(* connect(), disconnect(), clear() and x14() called on an instance built   *)
(* with or without keyword arguments, next to a second instance of the      *)
(* class.  x14() runs a whole ask(), with the steps given above.            *)

\* a method other than ask() returns True or False
ReturnBool(b, msg) ==
  /\ pc' = "idle"
  /\ out' = [kind |-> IF b THEN "True" ELSE "False", code |-> 0, msg |-> msg]
  /\ ret' = NoRet

\* connect(), lines 161-172, called by the user: serial.Serial(...) is
\* bound to self._conn whatever was held before, then check_port()
Connect ==
  /\ pc = "idle" /\ out = NoOut /\ init_out = "ok"
  /\ \E port \in PortResults :
       /\ port_result' = port
       /\ serial_bod' = self_bod
       /\ IF ConnBound(port)
          THEN /\ conn' = calls + 1 /\ has_conn' = TRUE /\ opened' = 1
               /\ is_open' = (port = "open")
          ELSE opened' = 0 /\ UNCHANGED <<has_conn, conn, is_open>>
       /\ IF connect_result(port) = "True"
          THEN ReturnBool(TRUE, "connect")
          ELSE Raise("ConnectionError", 0, ConnectMsg(port))
  /\ conn_start' = conn
  /\ UNCHANGED <<calls, command, args, quick, disconnect, caller, new_bod>>
  /\ UNCHANGED <<wireVars, rx, hsVars, stxVars, frameVars, instVars, sendVars, loopVars, thrVars, objVars>>

\* disconnect(), lines 176-179.  "if self.conn:" goes through the conn
\* property, which calls connect() when no connection is held: the port is
\* opened and closed again, or connect() raises.
Disconnect ==
  /\ pc = "idle" /\ out = NoOut /\ init_out = "ok"
  /\ conn_start' = conn
  /\ IF conn_held(has_conn, conn)
     THEN /\ conn' = Disconnected(conn) /\ is_open' = FALSE
          /\ ReturnBool(TRUE, "disconnect")
          /\ opened' = 0
          /\ UNCHANGED <<has_conn, port_result, serial_bod>>
     ELSE \E port \in PortResults :
            /\ port_result' = port
            /\ serial_bod' = self_bod
            /\ opened' = (IF ConnBound(port) THEN 1 ELSE 0)
            /\ IF connect_result(port) = "True"
               THEN /\ has_conn' = TRUE /\ conn' = Disconnected(calls + 1)
                    /\ is_open' = FALSE
                    /\ ReturnBool(TRUE, "disconnect")
               ELSE /\ Raise("ConnectionError", 0, ConnectMsg(port))
                    /\ IF ConnBound(port)
                       THEN conn' = calls + 1 /\ has_conn' = TRUE /\ is_open' = FALSE
                       ELSE UNCHANGED <<has_conn, conn, is_open>>
  /\ UNCHANGED <<calls, command, args, quick, disconnect, caller, new_bod>>
  /\ UNCHANGED <<wireVars, rx, hsVars, stxVars, frameVars, instVars, sendVars, loopVars, thrVars, objVars>>

\* is_connected, lines 146-149: bool(self._conn).  No line binds _conn
\* before the first connect(), in the class or in __init__, so the read
\* raises AttributeError until then; None gives False and a Serial object,
\* open or not, gives True
is_connected(has, c) ==
  IF ~has THEN "AttributeError" ELSE IF c # 0 THEN "True" ELSE "False"

\* the caller reads the property is_connected
IsConnected ==
  /\ pc = "idle" /\ out = NoOut /\ init_out = "ok"
  /\ pc' = "idle"
  /\ out' = [kind |-> is_connected(has_conn, conn), code |-> 0, msg |-> "is_connected"]
  /\ ret' = NoRet
  /\ UNCHANGED <<connVars, callVars, wireVars, rx, hsVars, stxVars, frameVars,
                 instVars, sendVars, loopVars, thrVars, objVars>>

(* -------------------------------- clear ------------------------------- *)

\* a slip in line 249: an empty answer not taken for "nothing pending"
ClearDone_nakOnly(answer) == answer = chr(NAK)

\* clear(), line 249: one_round() returns True
ClearDone(answer) == answer = chr(NAK) \/ answer = << >>

\* clear(), line 255: the loop condition on n
ClearAgain(k) == k < MAX_ATTEMPT

\* clear(), lines 254-255 and 247 of the first round: n = 0 and the ENQ.
\* self.conn in _write opens the port when no connection is held.
ClearStart ==
  /\ pc = "idle" /\ out = NoOut /\ init_out = "ok"
  /\ conn_start' = conn
  /\ clear_n' = 0 /\ clear_sleeps' = 0
  /\ \E port \in PortResults :
       LET held == conn_held(has_conn, conn) IN
       /\ held => port = "open"
       /\ port_result' = (IF held THEN "" ELSE port)
       /\ serial_bod' = (IF held THEN serial_bod ELSE self_bod)
       /\ IF ~held /\ connect_result(port) # "True"
          THEN /\ Raise("ConnectionError", 0, ConnectMsg(port))
               /\ IF ConnBound(port)
                  THEN /\ conn' = calls + 1 /\ has_conn' = TRUE /\ opened' = 1
                       /\ is_open' = FALSE
                  ELSE opened' = 0 /\ UNCHANGED <<has_conn, conn, is_open>>
               /\ UNCHANGED <<w_enq, last_write>>
          ELSE IF held /\ ~is_open
          THEN /\ Raise("SerialException", 0, "port not open")
               /\ opened' = 0 /\ UNCHANGED <<has_conn, conn, is_open>>
               /\ UNCHANGED <<w_enq, last_write>>
          ELSE /\ IF ~held
                  THEN /\ conn' = calls + 1 /\ opened' = 1 /\ has_conn' = TRUE
                       /\ is_open' = TRUE
                  ELSE opened' = 0 /\ UNCHANGED <<has_conn, conn, is_open>>
               /\ w_enq' = 1 /\ last_write' = chr(ENQ)
               /\ pc' = "clear_read"
               /\ UNCHANGED outVars
  /\ UNCHANGED <<calls, command, args, quick, disconnect, caller, new_bod>>
  /\ UNCHANGED <<w_frame, w_ack, w_nak, n_flush, pre_flush, slept>>
  /\ UNCHANGED <<rx, hsVars, stxVars, frameVars, instVars, sendVars, loopVars, thrVars, cls, other>>

\* clear(), line 247 of a later round: the ENQ
ClearWrite ==
  /\ pc = "clear_write"
  /\ w_enq' = w_enq + 1
  /\ last_write' = chr(ENQ)
  /\ pc' = "clear_read"
  /\ UNCHANGED <<connVars, callVars, w_frame, w_ack, w_nak, n_flush, pre_flush, slept,
                 rx, hsVars, stxVars, frameVars, outVars, instVars, sendVars, loopVars, thrVars, objVars>>

\* clear(), lines 248-259: the read of one round, the sleep and the count
ClearRead ==
  /\ pc = "clear_read"
  /\ \E answer \in DevRead(StateBytes, 1) :
       /\ rx' = answer
       /\ IF ClearDone(answer)
          THEN /\ ReturnBool(TRUE, "clear")
               /\ UNCHANGED <<clear_n, clear_sleeps>>
          ELSE /\ clear_sleeps' = clear_sleeps + 1
               /\ clear_n' = clear_n + 1
               /\ IF ClearAgain(clear_n + 1)
                  THEN pc' = "clear_write" /\ UNCHANGED outVars
                  ELSE ReturnBool(FALSE, "clear")
  /\ UNCHANGED <<connVars, callVars, wireVars, hsVars, stxVars, frameVars,
                 instVars, sendVars, loopVars, thrVars, cls, other>>

(* --------------------------------- x14 -------------------------------- *)

\* x14(), line 690: the baud rates by speed code
Bods == <<2400, 4800, 9600, 19200, 38400, 57600, 115200>>

\* speed codes given to x14(); 7 is past the end of the list
X14Speeds == {2, 7}

\* x14(), lines 689-692, with port=0 and timeout=100: the list index raises
\* IndexError for a speed code past the end, before anything is sent;
\* otherwise ask(0x14, admin_password + port + speed + timeout) with the
\* defaults sleep=0, disconnect=True, quick=False.  Lines 693-694 follow
\* the return of ask() (AskFinish).
X14(speed) ==
  /\ init_out = "ok"
  /\ IF speed + 1 \in DOMAIN Bods
     THEN /\ Ask(chr(20),
                 [none |-> FALSE, v |-> self_admin_password \o chr(0) \o chr(speed) \o chr(100)],
                 0, FALSE, TRUE, FALSE)
          /\ caller' = "x14"
          /\ new_bod' = Bods[speed + 1]
          /\ UNCHANGED <<loopVars, thrVars>>
     ELSE /\ pc = "idle" /\ out = NoOut
          /\ calls < MaxCalls
          /\ Raise("IndexError", 0, "x14")
          /\ caller' = "x14"
          /\ UNCHANGED <<calls, command, args, quick, disconnect, conn_start, new_bod,
                         port_result, serial_bod>>
          /\ UNCHANGED <<connVars, wireVars, rx, hsVars, stxVars, frameVars,
                         instVars, sendVars, loopVars, thrVars, objVars>>

(* -------------------------- a second instance ------------------------- *)

\* an attribute of the second instance as Python looks it up: in the
\* __dict__ of the instance, then in the class
OtherAttr(a) == IF a \in other.set THEN other[a] ELSE cls[a]

\* keyword arguments given to the instances: none, or a password with
\* another port and baud rate
ObjKwargs ==
  {[password |-> Absent, rest |-> NoRest],
   [password |-> IntArg(9999),
    rest |-> [set |-> {"port", "bod"}, port |-> "/dev/ttyS1", bod |-> 19200]]}

\* BaseKKT(**kwargs) for the second instance (lines 137-144)
ConstructOther(pw, rest) ==
  /\ pc = "idle" /\ out = NoOut
  /\ ~other.made
  /\ other' =
       [made |-> TRUE,
        set |-> rest.set \cup (IF pw.kind = "absent" THEN {} ELSE {"password"}),
        port |-> rest.port, bod |-> rest.bod,
        password |-> IF pw.kind = "absent" THEN << >> ELSE password_prapare(pw).v,
        admin_password |-> << >>,
        has_conn |-> FALSE, conn |-> 0]
  /\ UNCHANGED <<pc, connVars, callVars, wireVars, rx, hsVars, stxVars, frameVars,
                 outVars, instVars, sendVars, loopVars, thrVars, cls, clear_n, clear_sleeps>>

\* connect() and disconnect() of the second instance, the port opening
OtherConnect ==
  /\ pc = "idle" /\ out = NoOut
  /\ other.made /\ other.conn = 0
  /\ other' = [other EXCEPT !.has_conn = TRUE, !.conn = OtherAttr("bod")]
  /\ UNCHANGED <<pc, connVars, callVars, wireVars, rx, hsVars, stxVars, frameVars,
                 outVars, instVars, sendVars, loopVars, thrVars, cls, clear_n, clear_sleeps>>

OtherDisconnect ==
  /\ pc = "idle" /\ out = NoOut
  /\ other.made /\ other.conn # 0
  /\ other' = [other EXCEPT !.conn = 0]
  /\ UNCHANGED <<pc, connVars, callVars, wireVars, rx, hsVars, stxVars, frameVars,
                 outVars, instVars, sendVars, loopVars, thrVars, cls, clear_n, clear_sleeps>>

NextObject ==
  \/ \E kw \in ObjKwargs : Construct(kw.password, Absent, kw.rest)
  \/ \E kw \in ObjKwargs : ConstructOther(kw.password, kw.rest)
  \/ OtherConnect
  \/ OtherDisconnect
  \/ Connect
  \/ Disconnect
  \/ IsConnected
  \/ ClearStart
  \/ ClearWrite
  \/ ClearRead
  \/ \E speed \in X14Speeds : X14(speed)
  \/ CheckStateWrite
  \/ CheckStateRead1
  \/ CheckStateRead2
  \/ CheckSTXRead
  \/ CheckSTXRetry
  \/ ReadLength
  \/ ReadCommand
  \/ ReadError
  \/ ReadData
  \/ ReadControl
  \/ AskFinish
  \/ ResultTaken

SpecObject == InitClass /\ [][NextObject]_vars

(* --------------------------- the print loops -------------------------- *)
(* x12_loop() and x17_loop() cut the text into pieces and give each to     *)
(* x12() or x17(), which runs a whole ask() with quick=True.  A text is a  *)
(* sequence of code points.                                                *)

Loops == {"x12_loop", "x17_loop"}

\* the piece taken per turn (lines 609-610: 20; lines 735-736: 36)
Piece(name) == IF name = "x12_loop" THEN 20 ELSE 36

\* the opcode (lines 625, 756), the longest text x12() and x17() accept and
\* the width they pad it to (lines 631-634: 20; lines 762-765: 40)
Opcode(name) == IF name = "x12_loop" THEN 18 ELSE 23
Width(name) == IF name = "x12_loop" THEN 20 ELSE 40

\* lines 627-629, 758-760: flags
Flags(control_tape) == IF control_tape THEN 1 ELSE 2

\* one character in code page 1251: ASCII as it is, the Russian letters
\* U+0410..U+044F at 0xC0..0xFF; -1 for a character the texts below use
\* that the code page does not have
cp1251(c) ==
  IF c < 128 THEN c
  ELSE IF c \in 1040..1103 THEN c - 848
  ELSE -1

\* text.encode(CODE_PAGE): UnicodeEncodeError on a character the code page
\* does not have
encode(t) ==
  IF \E k \in 1..Len(t) : cp1251(t[k]) = -1 THEN Raised("UnicodeEncodeError")
  ELSE Value([k \in 1..Len(t) |-> cp1251(t[k])])

\* bytes.ljust(width, chr(0))
ljust(b, width) == [k \in 1..(IF Len(b) > width THEN Len(b) ELSE width) |->
                      IF k <= Len(b) THEN b[k] ELSE 0]

\* a slip in lines 610, 736: the text cut by the padded width
Rest_byWidth(t, name) == Drop(t, Width(name))

\* lines 610, 736: text = text[20:], text = text[36:]
Rest(t, name) == Drop(t, Piece(name))

\* lengths of the texts given to the loops
LoopLens == {0, 20, 21, 37, 72}

\* the texts: Latin letters with the Russian letter U+0416 at every seventh
\* place, and one text of 37 characters with the smiling face U+263A, which
\* code page 1251 does not have, at place 21
LoopTexts ==
  {[k \in 1..m |-> IF k % 7 = 0 THEN 1046 ELSE 65 + (k % 26)] : m \in LoopLens}
    \cup {[k \in 1..37 |-> IF k = 21 THEN 9786 ELSE 65 + (k % 26)]}

\* the x12() or x17() calls a text needs
Turns(t, name) == (Len(t) + Piece(name) - 1) \div Piece(name)

\* x12_loop(), x17_loop(), lines 607 and 731: last_result = None
LoopStart(name, t, control_tape) ==
  /\ pc = "idle" /\ out = NoOut /\ init_out = "ok"
  /\ loop_arg = NoLoop
  /\ calls + Turns(t, name) <= MaxCalls
  /\ loop_arg' = [name |-> name, text |-> t, control_tape |-> control_tape]
  /\ text' = t
  /\ last_result' = -1
  /\ loop_n' = 0
  /\ UNCHANGED <<pc, connVars, callVars, wireVars, rx, hsVars, stxVars, frameVars,
                 outVars, instVars, sendVars, thrVars, objVars>>

\* the loop condition (lines 608, 732) and, while text is left, the call of
\* x12() or x17() with the next piece up to the return of send() (lines
\* 625-638, 756-769): the length check, the encoding and the padding, then
\* ask(command, params, quick=True)
LoopHead ==
  /\ pc = "idle" /\ out = NoOut
  /\ loop_arg.name # ""
  /\ LET name  == loop_arg.name
         piece == Take(text, Piece(name))
     IN  IF Len(text) = 0
         THEN /\ pc' = "idle"
              /\ out' = [kind |-> "return", code |-> 0, msg |-> "loop"]
              /\ ret' = NoRet
              /\ UNCHANGED <<connVars, callVars, wireVars, rx, hsVars, stxVars,
                             frameVars, instVars, sendVars, objVars, loopVars, thrVars>>
         ELSE IF Len(piece) > Width(name) \/ encode(piece).raised # ""
         THEN /\ IF Len(piece) > Width(name)
                 THEN Raise("KktError", 0, "text too long")
                 ELSE Raise(encode(piece).raised, 0, "encode")
              /\ UNCHANGED <<connVars, callVars, wireVars, rx, hsVars, stxVars,
                             frameVars, instVars, sendVars, objVars, loopVars, thrVars>>
         ELSE /\ \E v \in {self_password \o chr(Flags(loop_arg.control_tape))
                              \o ljust(encode(piece).v, Width(name))} :
                   Ask(chr(Opcode(name)), [none |-> FALSE, v |-> v], 0, FALSE, TRUE, TRUE)
              /\ caller' = name /\ new_bod' = 0
              /\ loop_n' = loop_n + 1
              /\ UNCHANGED <<loop_arg, text, last_result, thrVars>>

\* ask() has returned to x12() or x17(): operator = ord(data[0]) (lines
\* 639, 770), which raises IndexError on empty data; then the loop keeps
\* the operator and cuts the piece off the text (lines 609-610, 735-736)
LoopNext ==
  /\ pc = "idle"
  /\ loop_arg.name # "" /\ out.kind = "return" /\ out.msg = ""
  /\ IF ret.data = << >>
     THEN /\ Raise("IndexError", 0, "data[0]")
          /\ UNCHANGED loopVars
     ELSE /\ last_result' = ret.data[1]
          /\ text' = Rest(text, loop_arg.name)
          /\ pc' = "idle" /\ out' = NoOut /\ ret' = NoRet
          /\ UNCHANGED <<loop_arg, loop_n>>
  /\ UNCHANGED <<connVars, callVars, wireVars, rx, hsVars, stxVars, frameVars,
                 instVars, sendVars, thrVars, objVars>>

LoopStep == LoopHead \/ LoopNext \/ CallStep

NextLoop ==
  \/ \E name \in Loops, t \in LoopTexts, control_tape \in BOOLEAN :
       LoopStart(name, t, control_tape)
  \/ LoopStep
  \/ ResultTaken

\* a loop that has started keeps running: the caller's thread is not
\* stopped, and every read of the channel returns (the port has a timeout)
SpecLoop == Init /\ [][NextLoop]_vars /\ WF_vars(LoopStep)

(* ----------------------- two callers, one object ---------------------- *)
(* Two threads call ask() on the same instance, each with its own locals;  *)
(* self._conn and the channel behind it are shared.  Every use of the      *)
(* channel (a write, a read, the close) is one step of a thread.  The      *)
(* device follows the class docstring: it answers ENQ with ACK and the     *)
(* response when a request is waiting for its answer, and with NAK when    *)
(* none is.                                                                *)

\* the state of the one caller of the sections above
oneCaller ==
  <<pc, opened, callVars, wireVars, rx, hsVars, stxVars, frameVars, outVars,
    instVars, sendVars, loopVars, objVars>>

Other(t) == 3 - t

\* thread u is between the write of its request frame and the answer byte
\* (ACK or NAK) for the response, or the exception that ends its ask()
InExchange(u) == th[u].pc \notin {"idle", "finish"}

\* a mutex that does not exclude
Acquirable_always(h) == TRUE

\* the mutex around ask(): free when no thread holds it
Acquirable(h) == h = 0

\* the bytes of a read; every byte in the channel carries the thread whose
\* request it answers
Bytes(got) == [k \in 1..Len(got) |-> got[k].b]

\* the device's answer to thread u's request: ACK ("preparing the
\* response"), then STX, length, opcode, error code 0, one data byte, LRC
Response(u) ==
  LET content == chr(Len(th[u].command) + 2) \o th[u].command \o <<0, u>>
      bytes == <<ACK, STX>> \o content \o get_control_summ(content)
  IN  [k \in 1..Len(bytes) |-> [b |-> bytes[k], of |-> u]]

\* what an ENQ brings: nothing (no answer within the timeout), NAK when no
\* request waits for its answer, or the answer to the oldest request
DeviceAnswer(quiet) ==
  IF quiet THEN << >>
  ELSE IF pending = << >> THEN <<[b |-> NAK, of |-> 0]>>
  ELSE Response(Head(pending))

\* self.conn (lines 151-157): the input of the port that is held, or of the
\* port the property opens when none is held
Buf == IF conn_held(has_conn, conn) THEN inbuf ELSE << >>

\* self.conn has been used and the port is still open
Uses == has_conn' = TRUE /\ conn' = 1 /\ is_open' = TRUE

\* disconnect() (lines 176-178): the unread input goes with the port
Closes == has_conn' = TRUE /\ conn' = Disconnected(1) /\ is_open' = FALSE /\ inbuf' = << >>

\* the ways in which this step of thread t cuts into the exchange of the
\* other thread: a frame or ENQ written ("write"), bytes of its response
\* read ("read"), the channel closed ("close")
Cuts(t, kind) == IF InExchange(Other(t)) THEN {kind} ELSE {}

\* ask(command, disconnect=d) up to the return of send() (lines 337-347):
\* the frame is written
TAsk(t, d) ==
  /\ th[t].pc = "idle" /\ th[t].out = "none"
  /\ use_mutex => Acquirable(holder)
  /\ holder' = IF use_mutex THEN t ELSE holder
  /\ Uses /\ inbuf' = Buf
  /\ pending' = Append(pending, t)
  /\ th' = [th EXCEPT ![t] = [NoThread EXCEPT !.pc = "check_state",
                                             !.command = chr(15 + t),
                                             !.disconnect = EffDisconnect(FALSE, d)]]
  /\ mixed' = mixed \cup Cuts(t, "write")
  /\ UNCHANGED <<use_mutex, oneCaller>>

\* check_state(), lines 189-190: the ENQ, and what the device does with it
TCheckStateWrite(t) ==
  /\ th[t].pc = "check_state"
  /\ Uses
  /\ \E quiet \in BOOLEAN :
       /\ inbuf' = Buf \o DeviceAnswer(quiet)
       /\ pending' = IF quiet \/ pending = << >> THEN pending ELSE Tail(pending)
  /\ th' = [th EXCEPT ![t].pc = "cs_read1"]
  /\ mixed' = mixed \cup Cuts(t, "write")
  /\ UNCHANGED <<use_mutex, holder, oneCaller>>

\* read(), lines 263-273, after check_state() gave res: the thread's next
\* position, its counters, and whether the connection is closed
AfterState(me, res) ==
  IF res = "raise"
  THEN [me EXCEPT !.pc = "idle", !.out = "ConnectionError"]
  ELSE IF me.ctx = "first"
  THEN IF FirstStateBranch(res) = "poll"
       THEN IF PollAgain(0)
            THEN [me EXCEPT !.pc = "check_state", !.ctx = "poll", !.i = 0]
            ELSE [me EXCEPT !.pc = "closing", !.ctx = "poll", !.i = 0]
       ELSE IF FirstStateBranch(res) = "close"
       THEN [me EXCEPT !.pc = "closing"]
       ELSE [me EXCEPT !.pc = "stx_read"]
  ELSE IF check_ACK_result(res)
  THEN [me EXCEPT !.pc = "stx_read"]
  ELSE IF PollAgain(me.i + 1)
  THEN [me EXCEPT !.pc = "check_state", !.i = me.i + 1]
  ELSE [me EXCEPT !.pc = "closing", !.i = me.i + 1]

\* thread t's step took k bytes at most from the channel and goes on as
\* next; a next position "closing" is disconnect() and the exception in the
\* same step.  When ask() is over the mutex, if taken, is given back.
TRead(t, k, got, next) ==
  /\ got = Take(Buf, k)
  /\ LET cut == IF \E j \in 1..Len(got) : got[j].of = Other(t)
                THEN Cuts(t, "read") ELSE {} IN
     IF next.pc = "closing"
     THEN /\ Closes
          /\ th' = [th EXCEPT ![t] = [next EXCEPT !.pc = "idle"]]
          /\ mixed' = mixed \cup cut \cup Cuts(t, "close")
     ELSE /\ Uses /\ inbuf' = Drop(Buf, k)
          /\ th' = [th EXCEPT ![t] = next]
          /\ mixed' = mixed \cup cut
  /\ holder' = IF th'[t].pc = "idle" THEN 0 ELSE holder
  /\ UNCHANGED <<use_mutex, pending, oneCaller>>

\* check_state(), lines 191-198, and what read() does with the result
TCheckStateRead(t) ==
  /\ th[t].pc \in {"cs_read1", "cs_read2"}
  /\ \E got \in {Take(Buf, 1)} :
       TRead(t, 1, got,
             IF got = << >> /\ th[t].pc = "cs_read1"
             THEN [th[t] EXCEPT !.pc = "cs_read2"]
             ELSE LET a == AfterState(th[t], check_state_result(Bytes(got)))
                  IN  IF a.pc = "closing" THEN [a EXCEPT !.out = "ConnectionError"] ELSE a)

\* check_STX(), lines 202-216
TCheckSTX(t) ==
  /\ th[t].pc \in {"stx_read", "stx_retry"}
  /\ \E got \in {Take(Buf, 1)} :
       LET k == IF th[t].pc = "stx_read" THEN 0 ELSE th[t].n + 1 IN
       TRead(t, 1, got,
             IF STXKeepWaiting(Bytes(got), k)
             THEN [th[t] EXCEPT !.pc = "stx_retry", !.n = k]
             ELSE IF STXAccepted(Bytes(got))
             THEN [th[t] EXCEPT !.pc = "len", !.n = 0]
             ELSE [th[t] EXCEPT !.pc = "idle", !.out = "ConnectionError", !.n = k])

\* read(), lines 281-287: the length byte, the opcode, the error byte
THeader(t) ==
  /\ th[t].pc \in {"len", "cmd", "err"}
  /\ LET k == IF th[t].pc = "cmd" THEN Len(th[t].command) ELSE 1 IN
     \E got \in {Take(Buf, k)} :
       TRead(t, k, got,
             IF th[t].pc = "len"
             THEN IF got = << >>
                  THEN [th[t] EXCEPT !.pc = "idle", !.out = "TypeError"]
                  ELSE [th[t] EXCEPT !.pc = "cmd", !.response_length = ord(Bytes(got))]
             ELSE IF th[t].pc = "cmd"
             THEN [th[t] EXCEPT !.pc = "err", !.r_command = Bytes(got)]
             ELSE [th[t] EXCEPT !.pc = "data", !.r_error = Bytes(got)])

\* read(), lines 287-293: the data and the length check; a mismatch writes
\* NAK, disconnects and raises
TReadData(t) ==
  /\ th[t].pc = "data"
  /\ LET k == DataLength(th[t].response_length, th[t].command) IN
     \E got \in {Take(Buf, k)} :
       TRead(t, k, got,
             IF LengthMismatch(k, Bytes(got))
             THEN [th[t] EXCEPT !.pc = "closing", !.out = "KktError"]
             ELSE [th[t] EXCEPT !.pc = "control", !.r_data = Bytes(got)])

\* read(), lines 295-312: the checksum, the answer byte (NAK with
\* disconnect() and the exception, or ACK) and the dict for ask()
TReadControl(t) ==
  /\ th[t].pc = "control"
  /\ \E got \in {Take(Buf, 1)} :
       LET me == th[t] IN
       TRead(t, 1, got,
             IF ChecksumMismatch(Bytes(got), me.response_length, me.r_command,
                                 me.r_error, me.r_data)
             THEN [me EXCEPT !.pc = "closing",
                             !.out = IF got = << >> THEN "TypeError" ELSE "KktError"]
             ELSE IF me.r_error = << >>
             THEN [me EXCEPT !.pc = "idle", !.out = "TypeError"]
             ELSE [me EXCEPT !.pc = "finish"])

\* ask(), lines 350-356
TFinish(t) ==
  /\ th[t].pc = "finish"
  /\ LET me == th[t] IN
     /\ IF me.disconnect
        THEN Closes /\ mixed' = mixed \cup Cuts(t, "close")
        ELSE Uses /\ inbuf' = Buf /\ mixed' = mixed
     /\ th' = [th EXCEPT ![t] =
                 IF ErrorRaised(ord(me.r_error))
                 THEN [me EXCEPT !.pc = "idle", !.out = "KktError"]
                 ELSE [me EXCEPT
                         !.pc = "idle", !.out = "return",
                         !.ret = [data |-> me.r_data, error |-> ord(me.r_error),
                                  command |-> ReturnedCommand(me.command, me.r_command)]]]
  /\ holder' = 0
  /\ UNCHANGED <<use_mutex, pending, oneCaller>>

NextThreads ==
  \/ \E t \in Threads, d \in BOOLEAN : TAsk(t, d)
  \/ \E t \in Threads : TCheckStateWrite(t)
  \/ \E t \in Threads : TCheckStateRead(t)
  \/ \E t \in Threads : TCheckSTX(t)
  \/ \E t \in Threads : THeader(t)
  \/ \E t \in Threads : TReadData(t)
  \/ \E t \in Threads : TReadControl(t)
  \/ \E t \in Threads : TFinish(t)

\* the callers take a mutex around ask(), or none
InitThreads ==
  /\ pc = "idle"
  /\ calls = 0
  /\ has_conn = FALSE /\ conn = 0 /\ is_open = FALSE /\ opened = 0
  /\ command = << >> /\ args = NoArgs /\ quick = FALSE /\ disconnect = TRUE
  /\ conn_start = 0
  /\ caller = "" /\ new_bod = 0 /\ port_result = "" /\ serial_bod = 0
  /\ w_frame = 0 /\ w_enq = 0 /\ w_ack = 0 /\ w_nak = 0
  /\ n_flush = 0 /\ pre_flush = 0 /\ slept = 0 /\ last_write = << >>
  /\ ctx = "first" /\ first_answer = "" /\ i = 0
  /\ n = 0 /\ timeout = MIN_TIMEOUT /\ stx_sleep = RZero
  /\ got_stx = FALSE
  /\ rx = << >>
  /\ response_length = -1 /\ r_command = << >> /\ r_error = << >>
  /\ r_data = << >>
  /\ out = NoOut /\ ret = NoRet
  /\ kwargs = NoKwargs /\ init_out = "ok"
  /\ self_password = password /\ self_admin_password = admin_password
  /\ params = NoParams /\ without_password = FALSE
  /\ self_bod = DEFAULT_BOD /\ self_port = DEFAULT_PORT
  /\ cls = ClassAttrs /\ other = NoOther
  /\ clear_n = 0 /\ clear_sleeps = 0
  /\ loop_arg = NoLoop /\ text = << >> /\ last_result = -1 /\ loop_n = 0
  /\ use_mutex \in BOOLEAN /\ holder = 0
  /\ th = [t \in Threads |-> NoThread]
  /\ inbuf = << >> /\ pending = << >> /\ mixed = {}

SpecThreads == InitThreads /\ [][NextThreads]_vars

(* ------------------------------- claims ------------------------------- *)

\* the checksum read() computes over the frame it holds (lines 296-298)
FrameChecksum ==
  get_control_summ(chr(response_length) \o r_command \o r_error \o r_data)

\* the opcode and the error byte were both received in full
HeaderComplete == Len(r_command) = Len(command) /\ Len(r_error) = 1

\* the data length the length byte declares
DeclaredDataLength == response_length - Len(command) - 1

\* the device answered the first ENQ with NAK, the next ENQ with ACK, and
\* then sent STX
NakAckStx == first_answer = "NAK" /\ w_enq = 2 /\ got_stx

\* C1: when the response's data has the declared length and a checksum byte
\* is received that differs from the XOR of length, echoed opcode, error
\* code and data, ask() writes NAK exactly once and no ACK, closes the
\* connection, raises KktError, and the call is over: no further read and
\* no second write of the request frame.
C1_ChecksumMismatchNakOnce ==
  [][ (/\ pc = "control"
       /\ Len(r_data) = DeclaredDataLength
       /\ Len(rx') = 1
       /\ rx' # FrameChecksum)
      => (/\ pc' = "idle"
          /\ out'.kind = "KktError"
          /\ w_nak' = 1 /\ w_nak = 0
          /\ w_ack' = 0
          /\ last_write' = chr(NAK)
          /\ conn' = 0
          /\ w_frame' = 1) ]_vars

C1_Witness ==
  /\ pc = "idle"
  /\ out.kind = "KktError" /\ out.msg = "checksum"
  /\ Len(rx) = 1
  /\ w_nak = 1 /\ w_ack = 0 /\ conn = 0

\* C2 as stated: after NAK, ACK, STX and a valid frame ask() returns without
\* raising, having written exactly one ACK and no NAK.
C2_Original ==
  [][ (pc = "finish" /\ NakAckStx)
      => (out'.kind = "return" /\ w_ack' = 1 /\ w_nak' = 0) ]_vars

\* C2 amended: after NAK, ACK, STX and a valid frame whose error byte is 0,
\* ask() returns the decoded data, the error code 0 and the echoed opcode
\* without raising, having written exactly one ACK and no NAK; a valid frame
\* with another error byte is acknowledged the same way.  Stated along the
\* frame: each complete read is taken, the matching checksum is answered
\* with the one ACK, and ask() returns what was read.
C2_NakAckStxValidFrame ==
  [][ NakAckStx =>
      /\ (pc = "len" /\ Len(rx') = 1) => (pc' = "cmd" /\ response_length' = ord(rx'))
      /\ (pc = "cmd" /\ Len(rx') = Len(command)) => (pc' = "err" /\ r_command' = rx')
      /\ (pc = "err" /\ Len(rx') = 1) => (pc' = "data" /\ r_error' = rx')
      /\ (pc = "data" /\ HeaderComplete /\ Len(rx') = DeclaredDataLength)
           => (pc' = "control" /\ r_data' = rx' /\ w_ack' = 0 /\ w_nak' = 0)
      /\ (pc = "control" /\ HeaderComplete /\ rx' = FrameChecksum)
           => (pc' = "finish" /\ w_ack' = 1 /\ w_nak' = 0 /\ UNCHANGED frameVars)
      /\ (pc = "finish")
           => (/\ w_ack' = 1 /\ w_nak' = 0
               /\ pc' = "idle"
               /\ ord(r_error) = 0 =>
                    /\ out'.kind = "return"
                    /\ ret' = [data |-> r_data, error |-> 0, command |-> r_command])
    ]_vars

C2_Witness ==
  /\ pc = "idle"
  /\ NakAckStx
  /\ out.kind = "return"
  /\ w_ack = 1 /\ w_nak = 0

\* C3: a response with valid length and checksum whose error byte is not 0
\* makes ask() raise KktError with exactly that code, never return; so the
\* error of every returned tuple is 0.
C3_DeviceErrorRaised ==
  [][ /\ (pc = "control" /\ HeaderComplete /\ rx' = FrameChecksum) => pc' = "finish"
      /\ (pc = "finish" /\ ord(r_error) # 0)
           => (pc' = "idle" /\ out'.kind = "KktError" /\ out'.code = ord(r_error))
      /\ (out'.kind = "return") => (ret'.error = 0)
    ]_vars

C3_Witness ==
  /\ pc = "idle"
  /\ out.kind = "KktError" /\ out.code = 2
  /\ w_ack = 1

\* C4: every connection-level error the handshake raises (no reply to ENQ,
\* NAK polling exhausted, STX wait exhausted, a byte other than STX) reaches
\* the caller with the connection closed.
C4_HandshakeFailureCloses ==
  (pc = "idle" /\ out.kind = "ConnectionError" /\ w_enq > 0) => conn = 0

\* C5: when the bytes after STX fall short of the declared length (no length
\* byte, opcode or error byte missing, or fewer data bytes than declared),
\* read() ends with the length-mismatch KktError, one NAK, no ACK and the
\* connection closed.
C5_ShortFrameRejected ==
  [][ (\/ (pc = "len" /\ rx' = << >>)
       \/ (pc \in {"data", "control"} /\ ~HeaderComplete /\ pc' = "idle")
       \/ (pc = "data" /\ Len(rx') < DeclaredDataLength))
      => (/\ pc' = "idle"
          /\ out'.kind = "KktError" /\ out'.msg = "length"
          /\ w_nak' = 1 /\ w_ack' = 0
          /\ conn' = 0) ]_vars

\* C6: with quick=True there is no flush before the request frame, no
\* time.sleep(sleep), and the connection a successful call used stays open,
\* whatever disconnect and sleep the caller passed.
C6_QuickNoFlushNoCloseNoSleep ==
  (calls > 0 /\ quick) =>
    /\ pre_flush = 0
    /\ slept = 0
    /\ ~disconnect
    /\ (pc = "idle" /\ out.kind = "return") => (conn # 0 /\ conn \in {conn_start, calls})

C6_Witness ==
  /\ pc = "idle" /\ out.kind = "return"
  /\ quick /\ args.quick /\ args.disconnect /\ args.sleep = 1
  /\ w_frame = 1 /\ conn # 0

\* C7: after a normal return with quick=False the connection is closed when
\* disconnect is true and is the same open connection when it is false; a
\* following ask() that finds a connection open uses it and opens none.
C7_DisconnectFlagOnSuccess ==
  /\ (pc = "idle" /\ out.kind = "return" /\ ~args.quick) =>
       /\ args.disconnect => conn = 0
       /\ ~args.disconnect =>
            (conn # 0 /\ conn = (IF conn_start # 0 THEN conn_start ELSE calls))
  /\ (calls > 0 /\ conn_start # 0) =>
       /\ opened = 0
       /\ pc # "idle" => conn = conn_start

C7_Witness ==
  /\ calls = 2 /\ pc = "idle" /\ out.kind = "return"
  /\ ~args.quick /\ ~args.disconnect
  /\ conn_start = 1 /\ conn = 1 /\ opened = 0

\* C8: when ask() raises a device-reported error the response has been
\* answered with ACK, and the connection is closed exactly when
\* disconnect=True and quick=False.
C8_DeviceErrorConnection ==
  (pc = "idle" /\ out.kind = "KktError" /\ out.code # 0) =>
    /\ w_ack = 1 /\ w_nak = 0 /\ last_write = chr(ACK)
    /\ (conn = 0) <=> (args.disconnect /\ ~args.quick)

C8_Witness ==
  /\ pc = "idle" /\ out.kind = "KktError" /\ out.code # 0
  /\ args.disconnect /\ args.quick
  /\ conn # 0 /\ w_ack = 1

\* C9: an ACK from the first check_state still leads to the STX wait; the
\* length byte is read only at the step that follows a received STX.
C9_StxBeforeLength ==
  [][ /\ (ctx = "first" /\ pc \in {"cs_read1", "cs_read2"} /\ rx' = chr(ACK))
           => (pc' = "stx_read" /\ response_length' = -1 /\ ~got_stx')
      /\ (pc' = "len")
           => (pc \in {"stx_read", "stx_retry"} /\ rx' = chr(STX) /\ got_stx')
      /\ (response_length' # -1 /\ response_length = -1)
           => (pc = "len" /\ got_stx)
    ]_vars

C9_Witness ==
  /\ first_answer = "ACK" /\ w_enq = 1
  /\ got_stx
  /\ pc = "cmd" /\ response_length # -1

\* 1.5 to the power k
RECURSIVE RPow(_, _)
RPow(r, k) == IF k = 0 THEN [n |-> 1, d |-> 1] ELSE RMul(r, RPow(r, k - 1))

RSub(a, b) == RAdd(a, [n |-> 0 - b.n, d |-> b.d])

RDiv(a, b) == RMul(a, [n |-> b.d, d |-> b.n])

\* MIN_TIMEOUT * (1.5^k - 1) / 0.5
BackoffTotal(k) ==
  RDiv(RMul(MIN_TIMEOUT, RSub(RPow([n |-> 3, d |-> 2], k), [n |-> 1, d |-> 1])),
       [n |-> 1, d |-> 2])

Bit(b, k) == (b \div (2 ^ k)) % 2

\* the XOR of the bytes of a string, bit by bit: bit k is set when an odd
\* number of the bytes have it set
XorOf(s) ==
  LET par(k) == Cardinality({j \in 1..Len(s) : Bit(s[j], k) = 1}) % 2
  IN  par(0) + 2 * par(1) + 4 * par(2) + 8 * par(3)
        + 16 * par(4) + 32 * par(5) + 64 * par(6) + 128 * par(7)

\* the params send() was given by ask()
SentParams == EffParams(params.none, params.v, without_password).v

\* send() has written the request frame of the call
FrameWritten == calls = 1 /\ w_frame = 1

\* a string without its last byte, and its last byte
Front(s) == SubSeq(s, 1, Len(s) - 1)
Last(s) == s[Len(s)]

\* C11: send() writes, in one write, STX, length, opcode, params, checksum:
\* the length byte is the number of bytes between itself and the checksum,
\* 1 + len(params) for a one-byte opcode and 2 + len(params) for an
\* extended one, and the checksum is the XOR of every byte from the length
\* byte through the last params byte.
C11_RequestFrameLayout ==
  FrameWritten =>
    LET f == last_write
        w == Len(command)
    IN  /\ Len(f) = 3 + w + Len(SentParams)
        /\ f[1] = STX
        /\ f[2] = Len(f) - 3
        /\ f[2] = w + Len(SentParams)
        /\ w \in {1, 2}
        /\ SubSeq(f, 3, 2 + w) = command
        /\ SubSeq(f, 3 + w, Len(f) - 1) = SentParams
        /\ Last(f) = XorOf(SubSeq(f, 2, Len(f) - 1))

C11_Witness ==
  /\ pc = "sent"
  /\ command = <<255, 1>> /\ params = [none |-> FALSE, v |-> <<1, 3>>]
  /\ last_write = <<2, 4, 255, 1, 1, 3, 248>>

\* C12 as stated: decoding the encoded frame yields opcode o and payload p,
\* the checksum check passes on it, and the frame is rejected when any
\* single byte other than STX is changed.
C12_Original ==
  pc = "parsed" =>
    IF rx = Tail(last_write)
    THEN out.kind = "ok" /\ r_command = command /\ r_data = SentParams
    ELSE out.kind # "ok"

\* C12 amended: read() parses a response, which has an error byte after the
\* opcode.  For a payload p of at least one byte, read() applied to the
\* frame send() made for (o, p) passes the length and the checksum check
\* and yields opcode o, and error byte followed by data equal to p; for the
\* empty payload it ends with the length mismatch.  The XOR of the length
\* byte through the payload equals the trailing byte of the encoded frame
\* and differs from it once any single byte after STX is changed; read()
\* rejects the frame when the changed byte is not the length byte.
C12_RoundTrip ==
  /\ FrameWritten =>
       get_control_summ(Front(Tail(last_write))) = chr(Last(last_write))
  /\ pc = "parsed" =>
       /\ (rx = Tail(last_write) /\ Len(SentParams) >= 1) =>
            /\ out.kind = "ok"
            /\ r_command = command
            /\ r_error \o r_data = SentParams
            /\ response_length = Len(command) + Len(SentParams)
       /\ (rx = Tail(last_write) /\ Len(SentParams) = 0) => out.kind = "length"
       /\ (rx # Tail(last_write)) =>
            /\ get_control_summ(Front(rx)) # chr(Last(rx))
            /\ rx[1] = last_write[2] => out.kind \in {"checksum", "length"}

C12_Witness ==
  /\ pc = "parsed" /\ out.kind = "ok"
  /\ rx = Tail(last_write)
  /\ command = <<255, 1>> /\ SentParams = <<3, 1>>
  /\ r_command = <<255, 1>> /\ r_error = <<3>> /\ r_data = <<1>>

\* C13 as stated: opcode plus params of more than 253 bytes make ask() fail
\* before any byte of the frame is written.
C13_Original ==
  (calls = 1 /\ Len(command) + Len(SentParams) > 253) =>
    (w_frame = 0 /\ out.kind \notin {"none", "ok", "return"})

\* C13 amended: the bound is 255.  When opcode plus params are longer than
\* 255 bytes, chr(length) raises ValueError before any byte of the frame is
\* written; up to 255 bytes the frame is written, and its length byte is
\* the true count, never truncated or wrapped.
C13_OversizeRaises ==
  calls = 1 =>
    /\ Len(command) + Len(SentParams) > 255 =>
         (w_frame = 0 /\ last_write = << >> /\ out.kind = "ValueError" /\ pc = "idle")
    /\ Len(command) + Len(SentParams) <= 255 => FrameWritten
    /\ FrameWritten =>
         (last_write[2] \in 0..255 /\ last_write[2] = Len(command) + Len(SentParams))

C13_Witness ==
  /\ calls = 1 /\ pc = "idle" /\ out.kind = "ValueError"
  /\ Len(command) + Len(SentParams) = 256
  /\ w_frame = 0

\* C14: with params=None and without_password false the frame's params are
\* the instance's operator password; with params=None and without_password
\* true the frame carries the opcode only and its length byte is
\* len(opcode); params that are passed are sent as they are, without the
\* password.
C14_PasswordDefault ==
  FrameWritten =>
    LET f  == last_write
        w  == Len(command)
        fp == SubSeq(f, 3 + w, Len(f) - 1)
    IN  /\ SubSeq(f, 3, 2 + w) = command
        /\ (params.none /\ ~without_password) => fp = self_password
        /\ (params.none /\ without_password) => (fp = << >> /\ f[2] = w /\ Len(f) = 3 + w)
        /\ ~params.none => fp = params.v

C14_Witness ==
  /\ pc = "sent"
  /\ params.none /\ ~without_password
  /\ kwargs.password = IntArg(9999)
  /\ command = <<1>>
  /\ last_write = <<2, 5, 1, 15, 39, 0, 0, 44>>

\* C15: every credential an instance holds, from the defaults, from an
\* integer or from a list/tuple of up to 4 values, is exactly 4 bytes long.
C15_CredentialFourBytes ==
  init_out = "ok" => (Len(self_password) = 4 /\ Len(self_admin_password) = 4)

(* ------------------- claims on the order of an exchange ---------------- *)

\* the phases of one ask() call in the order of the code: send (0, the step
\* out of "idle"), handshake, STX wait, the five reads, the end of ask()
Rank(p) ==
  CASE p = "idle" -> 0
    [] p \in {"check_state", "cs_read1", "cs_read2"} -> 1
    [] p \in {"stx_read", "stx_retry"} -> 2
    [] p = "len" -> 3
    [] p = "cmd" -> 4
    [] p = "err" -> 5
    [] p = "data" -> 6
    [] p = "control" -> 7
    [] p = "finish" -> 8

\* C16: within one ask() call the channel operations come in the order
\* (lazy connect), request frame, sleep, ENQ and handshake, STX wait, the
\* reads of length, opcode, error, data and checksum, verification,
\* acknowledgement, optional disconnect: a call moves from one phase to the
\* next or ends; the connect, the frame write and the sleep are its first
\* step; no ENQ is written before the request frame; ACK is written only at
\* the step that has read the checksum byte and found it equal to the XOR
\* of the frame; the disconnect of a successful call follows its ACK.
C16_OrderWithinCall ==
  [][ /\ (pc # "idle" /\ pc' # "idle") =>
           (Rank(pc') = Rank(pc) \/ Rank(pc') = Rank(pc) + 1)
      /\ (pc = "idle" /\ pc' # "idle") =>
           (/\ pc' = "check_state" /\ conn' # 0
            /\ w_frame' = 1 /\ w_enq' = 0 /\ w_ack' = 0
            /\ Head(last_write') = STX)
      /\ (opened' # opened \/ w_frame' # w_frame \/ slept' # slept) => pc = "idle"
      /\ (w_enq' > w_enq) => (pc = "check_state" /\ w_frame = 1 /\ w_ack = 0)
      /\ (w_ack' > w_ack) =>
           (/\ pc = "control" /\ got_stx /\ w_enq >= 1 /\ w_ack = 0
            /\ Len(r_data) = DeclaredDataLength
            /\ rx' = FrameChecksum)
      /\ (out'.kind = "return" /\ out.kind # "return") =>
           (pc = "finish" /\ w_ack = 1 /\ last_write = chr(ACK) /\ conn # 0)
    ]_vars

C16_Witness ==
  /\ pc = "idle" /\ out.kind = "return"
  /\ opened = 1 /\ slept = 1 /\ w_frame = 1
  /\ first_answer = "NAK" /\ w_enq = 2 /\ got_stx
  /\ w_ack = 1 /\ conn = 0

\* C17: request frames are written in call order and at most one exchange
\* is outstanding: while a call runs no other call starts and no frame is
\* written; a later ask() starts, and writes its frame, only once the
\* result of the earlier one has been taken, and a result is there to be
\* taken only after the earlier ask() has written its ACK or NAK or has
\* raised.
C17_NoPipelining ==
  [][ /\ (pc # "idle") => (calls' = calls /\ w_frame' = w_frame)
      /\ (calls' # calls) => (pc = "idle" /\ out = NoOut /\ calls' = calls + 1)
      /\ (w_frame' > w_frame) => (calls' = calls + 1 /\ w_frame' = 1)
      /\ (out # NoOut) =>
           (/\ pc = "idle" /\ calls > 0
            /\ \/ w_ack >= 1
               \/ w_nak >= 1
               \/ out.kind # "return")
    ]_vars

C17_Witness ==
  /\ calls = 2 /\ pc = "check_state"
  /\ w_frame = 1 /\ w_enq = 0
  /\ conn_start = 1

\* C18: each ask() call writes the request frame exactly once, whatever the
\* device answers: the count stays 1 from the send to the end of the call,
\* and no step of a running call goes back to the first ENQ.
C18_FrameWrittenOnce ==
  [][ /\ (pc # "idle") => (w_frame = 1 /\ w_frame' = 1)
      /\ (pc # "idle" /\ pc' = "check_state") => (ctx' = "poll" /\ w_enq >= 1)
      /\ (pc' = "idle" /\ out' # NoOut
            /\ out'.msg \notin {"connect", "port closed", "port not open"}) => w_frame' = 1
    ]_vars

C18_Witness ==
  /\ pc = "idle" /\ out.kind = "ConnectionError" /\ out.msg = "no ACK"
  /\ w_enq = 13
  /\ w_frame = 1

\* C19: ask() opens a connection only when none is held, at most once per
\* call and in its first step, before its first write; a running call
\* always holds the connection it reads and writes, and the step that
\* closes the connection ends the call, so the call reads, writes and opens
\* nothing after it; a new connection comes only with the next call.
C19_ConnectOncePerCall ==
  [][ /\ (conn' # 0 /\ conn' # conn) =>
           (pc = "idle" /\ conn = 0 /\ opened' = 1 /\ calls' = calls + 1)
      /\ opened' \in {0, 1}
      /\ (opened' = 1 /\ pc = "idle" /\ calls' # calls) => conn = 0
      /\ (pc # "idle") => (conn # 0 /\ opened' = opened /\ conn' \in {conn, 0})
      /\ (conn # 0 /\ conn' = 0) => (pc # "idle" /\ pc' = "idle")
    ]_vars

C19_Witness ==
  /\ calls = 2 /\ pc = "idle"
  /\ conn_start = 1 /\ opened = 0
  /\ out.kind = "KktError" /\ out.msg = "checksum"
  /\ conn = 0

\* C20: for a valid response frame with length byte L answering a request
\* whose opcode is w bytes wide, read() takes the first w bytes after the
\* length byte as the echoed opcode, the next byte as the error code and
\* exactly the following L - w - 1 bytes as data; the checksum it accepts is
\* the XOR of the length byte through the last data byte; and ask() returns
\* these (as data, error, opcode), or raises KktError with the error code
\* when it is not 0.
C20_ResponseLayout ==
  [][ /\ (pc = "len" /\ Len(rx') = 1) => (pc' = "cmd" /\ response_length' = ord(rx'))
      /\ (pc = "cmd") =>
           (pc' = "err" /\ r_command' = rx' /\ Len(rx') <= Len(command)
            /\ response_length' = response_length)
      /\ (pc = "err") =>
           (pc' = "data" /\ r_error' = rx' /\ Len(rx') <= 1 /\ r_command' = r_command)
      /\ (pc = "data" /\ pc' = "control") =>
           (/\ r_data' = rx'
            /\ Len(rx') = (response_length - Len(command)) - 1
            /\ r_command' = r_command /\ r_error' = r_error)
      /\ (pc = "control" /\ pc' = "finish") =>
           (/\ rx' = chr(XorOf(chr(response_length) \o r_command \o r_error \o r_data))
            /\ UNCHANGED frameVars)
      /\ (pc = "finish" /\ HeaderComplete) =>
           (/\ Len(r_command) = Len(command)
            /\ Len(r_data) = (response_length - Len(command)) - 1
            /\ IF ord(r_error) = 0
               THEN /\ out'.kind = "return"
                    /\ ret' = [data |-> r_data, error |-> 0, command |-> r_command]
               ELSE /\ out'.kind = "KktError" /\ out'.code = ord(r_error))
    ]_vars

C20_Witness ==
  /\ pc = "idle" /\ out.kind = "return"
  /\ command = <<1>>
  /\ ret = [data |-> <<1>>, error |-> 0, command |-> <<1>>]
  /\ rx = <<3>>

(* ------------------- claims on the object's methods ------------------- *)

\* serial.Serial(...) is called in this step and gives no open port
PortFails == port_result = "" /\ port_result' \in {"SerialException", "closed"}

\* nothing has been written or flushed in the call that ends with this step
NothingWritten ==
  /\ w_frame' = 0 /\ w_enq' = 0 /\ w_ack' = 0 /\ w_nak' = 0
  /\ n_flush' = 0 /\ last_write' = << >>

\* the object holds a connection whose port is open
Usable(has, c, o) == conn_held(has, c) /\ o

CheckStateEnds == pc \in {"cs_read1", "cs_read2"} /\ pc' # "cs_read2"

\* C22 as stated: check_state() returns ACK, returns NAK, or raises when no
\* byte arrived, and has no other result, whatever byte was received.
C22_Original ==
  [][ CheckStateEnds =>
        /\ check_state_result(rx') \in {"ACK", "NAK", "raise"}
        /\ check_state_result(rx') = "raise" <=> rx' = << >>
    ]_vars

\* C22: check_state() writes one ENQ, reads once, and reads a second time
\* exactly when the first read was empty; it returns ACK or NAK when that
\* byte came, raises ConnectionError (leaving the connection as it is) when
\* both reads were empty, and returns None for any other byte: read() then
\* closes the connection and raises ConnectionError when this was its first
\* check_state, and counts the poll as failed when it was polling.
C22_CheckStateOutcomes ==
  [][ /\ pc = "check_state" =>
           (pc' = "cs_read1" /\ w_enq' = w_enq + 1 /\ last_write' = chr(ENQ))
      /\ pc \in {"cs_read1", "cs_read2"} =>
           (w_enq' = w_enq /\ w_frame' = w_frame /\ pc' # "cs_read1")
      /\ pc' = "cs_read2" <=> (pc = "cs_read1" /\ rx' = << >>)
      /\ CheckStateEnds =>
           /\ check_state_result(rx') \in {"ACK", "NAK", "raise", "None"}
           /\ rx' = << >> <=> check_state_result(rx') = "raise"
           /\ rx' = << >> =>
                (out'.kind = "ConnectionError" /\ out'.msg = "no answer to ENQ"
                 /\ conn' = conn /\ is_open' = is_open)
           /\ rx' = chr(ACK) => (pc' = "stx_read" /\ conn' = conn)
           /\ (rx' = chr(NAK) /\ ctx = "first") =>
                (pc' = "check_state" /\ ctx' = "poll" /\ i' = 0)
           /\ rx' \notin {<< >>, chr(ACK), chr(NAK)} =>
                /\ check_state_result(rx') = "None"
                /\ ctx = "first" =>
                     (out'.kind = "ConnectionError" /\ out'.msg = "no answer"
                      /\ conn' = 0 /\ first_answer' = "None")
                /\ ctx = "poll" => i' = i + 1
    ]_vars

\* the first check_state of a call got a byte that is neither ACK nor NAK
C22_Witness ==
  /\ pc = "idle" /\ out.kind = "ConnectionError" /\ out.msg = "no answer"
  /\ first_answer = "None" /\ rx = chr(0)
  /\ w_enq = 1 /\ conn = 0 /\ conn_start # 0

\* C23: after a first NAK read() polls check_state at most MAX_ATTEMPT
\* times, so that a call writes at most 13 ENQ; a poll that returns ACK
\* leads to the STX wait; and when the last of the 12 polls has not
\* returned ACK either, the connection is closed and ConnectionError raised.
C23_PollBound ==
  [][ /\ ctx' = "poll" => (i' <= MAX_ATTEMPT /\ w_enq' <= MAX_ATTEMPT + 1)
      /\ (ctx = "poll" /\ CheckStateEnds /\ rx' = chr(ACK)) =>
           (pc' = "stx_read" /\ i < MAX_ATTEMPT /\ conn' = conn)
      /\ (ctx = "poll" /\ CheckStateEnds /\ rx' # chr(ACK) /\ i = MAX_ATTEMPT - 1) =>
           (pc' = "idle" /\ out'.kind = "ConnectionError" /\ conn' = 0)
    ]_vars

\* C24: clear() runs at most MAX_ATTEMPT rounds of one ENQ and one read; it
\* returns True at the first round answered by NAK or by nothing, sleeps
\* once after every round answered by another byte, returns False exactly
\* when 12 rounds were answered by another byte, and neither raises for a
\* silent device nor closes the connection.
C24_ClearRounds ==
  [][ /\ pc' = "clear_read" =>
           /\ w_enq' = w_enq + 1 /\ last_write' = chr(ENQ)
           /\ w_enq' = clear_n' + 1 /\ w_enq' <= MAX_ATTEMPT
           /\ clear_sleeps' = clear_n'
      /\ pc = "clear_read" =>
           /\ UNCHANGED <<w_enq, w_frame, w_ack, w_nak, last_write>>
           /\ conn' = conn /\ is_open' = is_open /\ has_conn' = has_conn
           /\ out'.kind \in {"none", "True", "False"}
           /\ rx' \in {chr(NAK), << >>} <=> (pc' = "idle" /\ out'.kind = "True")
           /\ rx' \in {chr(NAK), << >>} => UNCHANGED <<clear_n, clear_sleeps>>
           /\ rx' \notin {chr(NAK), << >>} =>
                (clear_sleeps' = clear_sleeps + 1 /\ clear_n' = clear_n + 1)
           /\ out'.kind = "False" <=>
                (rx' \notin {chr(NAK), << >>} /\ clear_n' = MAX_ATTEMPT
                 /\ w_enq = MAX_ATTEMPT /\ clear_sleeps' = MAX_ATTEMPT)
           /\ pc' = "clear_write" <=>
                (rx' \notin {chr(NAK), << >>} /\ clear_n' < MAX_ATTEMPT)
      /\ pc = "clear_write" => (pc' = "clear_read" /\ UNCHANGED <<clear_n, connVars>>)
    ]_vars

\* clear() has returned False after 12 rounds, on a connection it found open
C24_Witness ==
  /\ pc = "idle" /\ out.kind = "False" /\ out.msg = "clear"
  /\ clear_n = MAX_ATTEMPT /\ w_enq = MAX_ATTEMPT /\ clear_sleeps = MAX_ATTEMPT
  /\ conn_start # 0 /\ conn = conn_start /\ is_open

\* C25: a running ask() keeps its loops within MAX_ATTEMPT (at most 12
\* polls after a NAK, so at most 13 ENQ, and at most 12 sleeps in the STX
\* wait, in a single check_STX), and as long as every channel read returns
\* it ends, by a return or an exception.
C25_AskTerminates ==
  /\ [](pc # "idle" =>
          /\ i <= MAX_ATTEMPT /\ w_enq <= MAX_ATTEMPT + 1
          /\ n <= MAX_ATTEMPT
          /\ w_frame = 1 /\ w_ack + w_nak <= 1)
  /\ (pc # "idle") ~> (pc = "idle" /\ out # NoOut)

\* a call that used up 12 polls and 12 sleeps of the STX wait has ended
C25_Witness ==
  /\ pc = "idle" /\ out.kind = "ConnectionError" /\ out.msg = "no STX"
  /\ first_answer = "NAK" /\ i = MAX_ATTEMPT - 1 /\ w_enq = MAX_ATTEMPT + 1
  /\ n = MAX_ATTEMPT

\* C26: a call writes at most one byte in answer to the response, never ACK
\* and NAK both: NAK when the data read is not as long as declared, and
\* otherwise ACK when the checksum byte read equals the XOR of length,
\* opcode, error and data, and NAK when it does not; no other step of the
\* call writes either byte.
C26_OneAcknowledgement ==
  [][ /\ w_ack' + w_nak' <= 1
      /\ pc = "data" =>
           /\ w_ack = 0 /\ w_nak = 0 /\ w_ack' = 0
           /\ w_nak' = 1 <=> Len(rx') # DeclaredDataLength
           /\ w_nak' = 1 => (last_write' = chr(NAK) /\ pc' = "idle")
      /\ pc = "control" =>
           /\ w_ack = 0 /\ w_nak = 0 /\ Len(r_data) = DeclaredDataLength
           /\ w_ack' = 1 <=>
                rx' = chr(XorOf(chr(response_length) \o r_command \o r_error \o r_data))
           /\ w_nak' = 1 <=>
                rx' # chr(XorOf(chr(response_length) \o r_command \o r_error \o r_data))
           /\ last_write' = chr(IF w_ack' = 1 THEN ACK ELSE NAK)
      /\ (pc \notin {"idle", "data", "control"}) => UNCHANGED <<w_ack, w_nak>>
      /\ (pc' \notin {"idle", "finish"}) => (w_ack' = 0 /\ w_nak' = 0)
    ]_vars

\* a call ended by the length check: one NAK, no ACK
C26_Witness ==
  /\ pc = "idle" /\ out.kind = "KktError" /\ out.msg = "length"
  /\ w_nak = 1 /\ w_ack = 0 /\ last_write = chr(NAK)
  /\ got_stx

\* the call is in check_STX()
InSTXWait == pc \in {"stx_read", "stx_retry"}

\* C27: read() calls check_STX once in a call.  check_STX returns True when
\* the first byte that arrives is STX, raises at once when it is another
\* byte (whatever attempts are left), goes on waiting only after an empty
\* read, and raises after the 12th sleep; the loop of read() over j never
\* calls it again, so a call sleeps at most 12 times for STX, the one
\* backoff budget of MIN_TIMEOUT * (1.5^12 - 1) / 0.5.
C27_STXWaitOnce ==
  [][ /\ pc' = "stx_read" => (pc \in {"cs_read1", "cs_read2"} /\ ~got_stx /\ n = 0)
      /\ InSTXWait =>
           /\ pc' \in {"stx_retry", "len", "idle"}
           /\ rx' = chr(STX) <=> (pc' = "len" /\ got_stx')
           /\ rx' \notin {<< >>, chr(STX)} =>
                (pc' = "idle" /\ out'.kind = "ConnectionError" /\ out'.msg = "no STX")
           /\ pc' = "stx_retry" => rx' = << >>
           /\ (rx' = << >> /\ pc' = "idle") =>
                (n' = MAX_ATTEMPT /\ out'.kind = "ConnectionError" /\ out'.msg = "no STX")
           /\ (pc = "stx_read" /\ pc' = "idle") => (n' = 0 /\ stx_sleep' = RZero)
           /\ n' <= MAX_ATTEMPT
           /\ pc' # "len" => RSub(BackoffTotal(MAX_ATTEMPT), stx_sleep').n >= 0
           /\ pc' # "len" => stx_sleep' = BackoffTotal(n')
      /\ (pc # "idle" /\ ~InSTXWait) => UNCHANGED <<n, stx_sleep>>
      /\ got_stx => pc' \notin {"stx_read", "stx_retry"}
    ]_vars

\* a byte other than STX arrived after three empty reads: the wait is
\* over with 9 attempts left
C27_Witness ==
  /\ pc = "idle" /\ out.kind = "ConnectionError" /\ out.msg = "no STX"
  /\ rx = chr(0) /\ n = 3 /\ stx_sleep = BackoffTotal(3)
  /\ ~got_stx

\* C28: password_prapare given an integer returns its 4 packed bytes when
\* the integer is in 0..9999 and raises ValueError for every other integer,
\* above 9999 or negative.
C28_IntegerRange ==
  (init_out # "none" /\ kwargs.password.kind = "int") =>
    IF kwargs.password.i \in 0..9999
    THEN init_out = "ok" /\ self_password = LEBytes(kwargs.password.i)
    ELSE init_out = "ValueError" /\ self_password = password

\* C29: self.bod changes only at the end of an x14() whose ask() returned:
\* the response has been read and answered with ACK on a connection opened
\* at the old baud rate, and that connection is closed by the same step;
\* every port opened afterwards is opened at self.bod, the new rate.  An
\* x14() that ends with an exception leaves self.bod as it was.
C29_BaudAfterExchange ==
  [][ /\ (init_out = "ok" /\ self_bod' # self_bod) =>
           /\ caller = "x14" /\ pc = "finish" /\ pc' = "idle"
           /\ out'.kind = "return" /\ ord(r_error) = 0
           /\ self_bod' = new_bod
           /\ w_frame = 1 /\ w_ack = 1 /\ w_nak = 0 /\ last_write = chr(ACK)
           /\ serial_bod = self_bod
           /\ conn # 0 /\ conn' = 0 /\ ~is_open'
      /\ (caller' = "x14" /\ pc' = "idle" /\ out'.kind \notin {"none", "return"}) =>
           self_bod' = self_bod
      /\ (caller = "x14" /\ pc = "finish" /\ out'.kind = "return") => self_bod' = new_bod
      /\ (port_result = "" /\ port_result' # "") => serial_bod' = self_bod
      /\ conn_held(has_conn', conn') => serial_bod' = self_bod'
    ]_vars

\* after an x14() that set 9600 baud, the next call has opened the port at
\* 9600 baud
C29_Witness ==
  /\ calls = 2 /\ pc = "check_state" /\ opened = 1
  /\ kwargs.rest = NoRest /\ self_bod = 9600 /\ serial_bod = 9600
  /\ conn # 0 /\ is_open

\* C30: configuration and connection state are per instance.  No step changes
\* the attributes of the class; a step of one instance (its construction with
\* keyword arguments, x14() rebinding bod, connect(), disconnect(), an
\* exchange) leaves the other instance's port, baud rate, passwords and
\* connection as they were, and a step of the other instance leaves this one's.
C30_PerInstance ==
  [][ /\ cls = ClassAttrs /\ cls' = cls
      /\ (other.made /\ (instVars' # instVars \/ connVars' # connVars \/ pc' # pc)) =>
           other' = other
      /\ (other.made /\ other'.made) =>
           \A a \in {"port", "bod", "password", "admin_password"} :
             OtherAttr(a)' = OtherAttr(a)
      /\ other' # other =>
           UNCHANGED <<self_password, self_admin_password, self_bod, self_port,
                       has_conn, conn, is_open>>
    ]_vars

\* an instance made with another port and baud rate has just set 9600 baud by
\* x14(), next to an instance made without arguments that holds a connection
\* opened at the default rate of the class
C30_Witness ==
  /\ kwargs.rest.set = {"port", "bod"} /\ self_port = "/dev/ttyS1"
  /\ caller = "x14" /\ out.kind = "return" /\ self_bod = 9600
  /\ other.made /\ other.set = {} /\ other.conn = DEFAULT_BOD
  /\ OtherAttr("port") = DEFAULT_PORT /\ OtherAttr("bod") = DEFAULT_BOD

(* ------------------- claims on what read() accepts -------------------- *)

\* the response read so far has the request's opcode width, an error byte
\* and an echoed opcode that is not the opcode sent
EchoDiffers ==
  /\ Len(r_command) = Len(command) /\ r_command # command
  /\ Len(r_error) = 1

\* C32 as stated: a response with correct length and checksum whose echoed
\* opcode differs from the request is answered with ACK, and ask() returns
\* the differing opcode without raising.
C32_Original ==
  [][ /\ (pc = "control" /\ EchoDiffers
          /\ rx' = chr(XorOf(chr(response_length) \o r_command \o r_error \o r_data))) =>
           (pc' = "finish" /\ w_ack' = w_ack + 1 /\ w_nak' = w_nak)
      /\ (pc = "finish" /\ EchoDiffers) =>
           (out'.kind = "return" /\ ret'.command = r_command)
    ]_vars

\* C32 amended: read() does not compare the echoed opcode with the opcode
\* sent.  A response with correct length and checksum whose echoed opcode
\* differs from the request is answered with ACK, as it would be with the
\* opcode sent; when its error code is 0, ask() returns the differing opcode
\* as its third result, and when its error code is not 0, ask() raises for
\* the error code as for any response.
C32_EchoNotCompared ==
  [][ /\ (pc = "control" /\ EchoDiffers
          /\ rx' = chr(XorOf(chr(response_length) \o r_command \o r_error \o r_data))) =>
           /\ pc' = "finish" /\ out' = out
           /\ w_ack' = w_ack + 1 /\ w_nak' = w_nak /\ last_write' = chr(ACK)
           /\ UNCHANGED frameVars
      /\ (pc = "finish" /\ EchoDiffers) =>
           /\ w_ack = 1 /\ w_nak = 0
           /\ IF ord(r_error) = 0
              THEN /\ out'.kind = "return"
                   /\ ret' = [data |-> r_data, error |-> 0, command |-> r_command]
                   /\ ret'.command # command
              ELSE /\ out'.kind \in {"KktError", "KeyError"}
                   /\ out'.code = ord(r_error) /\ out'.msg = "device"
                   /\ ret' = NoRet
    ]_vars

\* ask(0x01) has returned the opcode 0xFF that the response carried
C32_Witness ==
  /\ pc = "idle" /\ out.kind = "return"
  /\ command = <<1>> /\ ret.command = <<255>> /\ ret.error = 0
  /\ w_ack = 1 /\ w_nak = 0 /\ last_write = chr(ACK)

\* read() has parsed a valid frame (length, opcode, error byte, data,
\* checksum) in which one byte was changed on the way
OneByteChanged ==
  /\ pc = "parsed"
  /\ Len(SentParams) >= 1
  /\ rx # Tail(last_write)

\* C33 as stated: when one byte of a valid response frame is changed, the
\* length byte included, no ACK is written and nothing is returned: the
\* exchange ends with NAK and a raised error.
C33_Original ==
  OneByteChanged =>
    (w_ack = 0 /\ w_nak = 1 /\ out.kind \in {"length", "checksum", "TypeError"})

\* C33 amended: a changed opcode, error, data or checksum byte fails the
\* checksum check: NAK, no ACK, KktError.  A changed length byte l changes
\* what read() takes as data and as checksum.  Larger than the original by
\* one, the checksum is taken as data and the checksum read is empty: NAK,
\* and TypeError from the message of line 302; larger by more, or smaller
\* than the opcode width plus 1, the length check fails: NAK, KktError.
\* Otherwise read() takes the byte after the shortened data as checksum; the
\* frame is refused with NAK unless that byte is the XOR of the bytes before
\* it, and then ACK is written and the shortened data returned.
C33_OneByteChanged ==
  OneByteChanged =>
    LET sent == Tail(last_write)
        w    == Len(command)
        l    == rx[1]
    IN  IF l = sent[1]
        THEN w_ack = 0 /\ w_nak = 1 /\ out.kind = "checksum"
        ELSE IF l = sent[1] + 1
        THEN w_ack = 0 /\ w_nak = 1 /\ out.kind = "TypeError"
        ELSE IF l > sent[1] \/ l < w + 1
        THEN w_ack = 0 /\ w_nak = 1 /\ out.kind = "length"
        ELSE IF rx[l + 2] # XorOf(SubSeq(rx, 1, l + 1))
        THEN w_ack = 0 /\ w_nak = 1 /\ out.kind = "checksum"
        ELSE /\ w_ack = 1 /\ w_nak = 0 /\ out.kind = "ok"
             /\ r_command = SubSeq(rx, 2, w + 1)
             /\ r_error = <<rx[w + 2]>>
             /\ r_data = SubSeq(rx, w + 3, l + 1)
             /\ Len(r_data) < Len(SentParams) - 1

\* the data byte of the frame 03 01 00 03 01 arrived as 01: NAK, KktError
C33_Witness ==
  /\ OneByteChanged
  /\ Tail(last_write) = <<3, 1, 0, 3, 1>> /\ rx = <<3, 1, 0, 1, 1>>
  /\ w_ack = 0 /\ w_nak = 1 /\ out.kind = "checksum"

(* --------------- claims on the state of the connection ---------------- *)

\* C34: disconnect() returns True and leaves the instance without a
\* connection, and when no connection is held it is a no-op: serial.Serial
\* is not called and nothing of the instance changes.
C34_DisconnectNoOp ==
  [][ (out = NoOut /\ out'.msg = "disconnect") =>
        /\ out'.kind = "True"
        /\ ~conn_held(has_conn', conn')
        /\ ~conn_held(has_conn, conn) =>
             (port_result' = "" /\ opened' = 0 /\ UNCHANGED <<has_conn, conn, is_open>>)
    ]_vars

\* C35: is_connected gives a boolean, True exactly when the instance holds
\* a connection: False on a newly constructed instance and after the
\* connection was closed, True after a connect() that bound one.
C35_IsConnected ==
  [][ (out = NoOut /\ out'.msg = "is_connected") =>
        /\ out'.kind \in {"True", "False"}
        /\ out'.kind = "True" <=> conn_held(has_conn, conn)
    ]_vars

(* ---------------------- claims on the print loops --------------------- *)

\* the characters of the k-th piece of the text the running loop was given
PieceOf(k) ==
  LET p == Piece(loop_arg.name)
      l == Len(loop_arg.text)
  IN  SubSeq(loop_arg.text, (k - 1) * p + 1, IF k * p < l THEN k * p ELSE l)

\* len(text) / piece, rounded up
Ceil(l, p) == IF l % p = 0 THEN l \div p ELSE (l \div p) + 1

\* the running loop is over: it has returned, or an exception has left it
LoopEnded ==
  /\ loop_arg.name # "" /\ pc = "idle"
  /\ out.msg = "loop" \/ out.kind \notin {"none", "return"}

\* C36: x17_loop (x12_loop) gives the text to one quick print command per
\* piece of 36 (20) characters, in the order of the text; it returns after
\* ceil(len(text)/36) (ceil(len(text)/20)) commands, none for the empty
\* text; the connection is open after every piece, the last one included;
\* an exception raised for one piece ends the loop with no later command;
\* and a loop that has started ends.
C36_PrintLoop ==
  /\ [][ /\ (loop_arg.name # "" /\ calls' = calls + 1) =>
              /\ loop_n' = loop_n + 1
              /\ quick' /\ ~disconnect'
              /\ text = Drop(loop_arg.text, loop_n * Piece(loop_arg.name))
              /\ Len(PieceOf(loop_n')) \in 1..Piece(loop_arg.name)
              /\ w_frame' = 1 =>
                   \E piece \in {PieceOf(loop_n')} :
                   \E b \in {<<6 + Width(loop_arg.name), Opcode(loop_arg.name)>>
                               \o self_password
                               \o <<Flags(loop_arg.control_tape)>>
                               \o [k \in 1..Width(loop_arg.name) |->
                                     IF k <= Len(piece) THEN cp1251(piece[k]) ELSE 0]} :
                     last_write' = <<STX>> \o b \o <<XorOf(b)>>
         /\ (loop_arg.name # "" /\ out = NoOut /\ out'.msg = "loop") =>
              /\ loop_n = Ceil(Len(loop_arg.text), Piece(loop_arg.name))
              /\ text = << >>
              /\ calls' = calls /\ last_write' = last_write
              /\ loop_n = 0 => (last_result = -1 /\ UNCHANGED connVars)
              /\ loop_n > 0 => (conn # 0 /\ is_open /\ conn' = conn /\ is_open')
         /\ (loop_arg.name # "" /\ pc = "finish" /\ out'.kind = "return") =>
              (conn # 0 /\ conn' = conn /\ is_open /\ is_open')
         /\ (loop_arg.name # "" /\ out.kind \notin {"none", "return"}) =>
              (loop_arg' = NoLoop /\ calls' = calls /\ pc' = "idle"
               /\ last_write' = << >> /\ w_frame' = 0)
         /\ loop_n' <= Ceil(Len(loop_arg'.text), Piece(loop_arg'.name))
       ]_vars
  /\ (loop_arg.name # "") ~> LoopEnded

\* x12_loop() has returned after two commands for a text of 37 characters,
\* with the connection open
C36_Witness ==
  /\ loop_arg.name = "x12_loop" /\ Len(loop_arg.text) = 37
  /\ pc = "idle" /\ out.kind = "return" /\ out.msg = "loop"
  /\ loop_n = 2 /\ calls = 2 /\ text = << >> /\ last_result = 1
  /\ conn # 0 /\ is_open


(* ---------------------- claims on shared use -------------------------- *)

\* both threads are inside ask() at once
BothInside == \A t \in Threads : th[t].pc # "idle"

\* C31: two callers of ask() on one object can interleave on the channel: a
\* second frame or ENQ is written before the first exchange is acknowledged,
\* one caller reads bytes of the other's response, and a disconnect closes
\* the channel in the middle of the other's exchange.  With a mutex around
\* ask() none of this happens: a thread inside ask() holds the mutex, at
\* most one thread is inside, no step cuts into the other's exchange, and
\* the connection of a running exchange is held and open.
C31_MutexExcludes ==
  use_mutex =>
    /\ mixed = {}
    /\ ~BothInside
    /\ \A t \in Threads : th[t].pc # "idle" => holder = t
    /\ \A t \in Threads : InExchange(t) => conn_held(has_conn, conn) /\ is_open

\* without the mutex all three interleavings have happened in one run
C31_Witness == ~use_mutex /\ mixed = {"write", "read", "close"}

====
